---------------------------- MODULE Spec2Model ----------------------------
(***************************************************************************)
(* Model of the "Console and Cartridge" runtime: the SessionManager        *)
(* (team / player / session registry with file persistence), the           *)
(* GameRegistry and the EventRouter state machine.                         *)
(*                                                                         *)
(* Strings that the code inspects character by character (names, join      *)
(* codes) are sequences of one-character strings.  Python dicts are        *)
(* functions; the empty dict is the empty function <<>>.  uuid4() values   *)
(* are drawn from a counter (a uuid is never handed out twice).            *)
(***************************************************************************)
EXTENDS Integers, Sequences, FiniteSets, TLC

VARIABLES
    teams,            \* SessionManager.teams: team_id -> team record
    sessions,         \* SessionManager.sessions: sid -> [team_id, player_id, last_seen]
    join_codes,       \* SessionManager.join_codes: code -> team_id
    current_state,    \* SessionManager.current_state
    state_data,       \* SessionManager.state_data
    primary,          \* data/scores.json
    bak,              \* data/scores.json.bak
    tmp,              \* data/scores_*.tmp of the save in progress
    now,              \* time.time(), which stands still in these runs
    nextUuid,         \* number of uuid4() values handed out so far
    booted,           \* the file the startup just done loaded; "none" once a call ran
    lock,             \* SessionManager._lock: its holder, or NoThread
    pc,               \* per connection thread: where it is in create_team
    call,             \* per connection thread: the arguments of its call
    savePc,           \* where the save in progress is (step-wise save)
    saveDoc,          \* the document the save in progress is writing
    preSave,          \* history: the primary file when the save started
    current_game_id,  \* EventRouter.current_game_id
    games,            \* GameRegistry._games: the registered GAME_IDs
    gameState,        \* per cartridge: its private _state, or NotEntered
    emitted,          \* the last state_change broadcast, or NoEmit
    returned,         \* what the last EventRouter.set_state returned, or "none"
    entered,          \* history: the cartridge whose on_enter ran last
    entries,          \* history, per cartridge: on_enter calls less on_exit calls
    outbox,           \* the socketio.emit calls of the last handle_event, in order
    inflight,         \* the handle_event call in progress or last made, or NoDispatch
    lastActive,       \* history, per connection: << time of its last event >>, or Never
    connected,        \* the connections Socket.IO holds open
    admins,           \* the connections in the room "admin"
    timers,           \* the cleanup Timers started and neither fired nor cancelled
    sweeping          \* whether _cleanup_stale_sessions is running on its Timer thread

vars == << teams, sessions, join_codes, current_state, state_data, primary, bak,
           tmp, now, nextUuid, booted, lock, pc, call,
           savePc, saveDoc, preSave, current_game_id, games, gameState,
           emitted, returned, entered, entries, outbox, inflight,
           lastActive, connected, admins, timers, sweeping >>

registryVars == << teams, sessions, join_codes, current_state, state_data >>
fileVars     == << primary, bak, tmp >>
threadVars   == << lock, pc, call >>
saveVars     == << savePc, saveDoc, preSave >>
routerVars   == << current_game_id, games, gameState, emitted, returned, entered,
                   entries, outbox, inflight >>
connVars     == << lastActive, connected, admins >>
timerVars    == << timers, sweeping >>

---------------------------------------------------------------------------
(* Bounds of the model *)

MaxUuid == 4          \* uuid4() values available in one run
MaxScore == 1         \* |score| explored by add_points
MaxCodes == 2         \* distinct values generate_join_code returns in one run

---------------------------------------------------------------------------
(* Characters and strings *)

UpperLetters == << "A", "B", "C", "D", "E", "F", "G", "H", "I", "J", "K", "L", "M",
                   "N", "O", "P", "Q", "R", "S", "T", "U", "V", "W", "X", "Y", "Z" >>
LowerLetters == << "a", "b", "c", "d", "e", "f", "g", "h", "i", "j", "k", "l", "m",
                   "n", "o", "p", "q", "r", "s", "t", "u", "v", "w", "x", "y", "z" >>

Range(s) == { s[i] : i \in DOMAIN s }

IsSpace(c) == c = " "

\* str.lower() / str.upper() on one character: a letter maps to its counterpart,
\* any other character to itself
ToLower == [c \in Range(UpperLetters) |->
              LowerLetters[CHOOSE i \in DOMAIN UpperLetters : UpperLetters[i] = c]]
ToUpper == [c \in Range(LowerLetters) |->
              UpperLetters[CHOOSE i \in DOMAIN LowerLetters : LowerLetters[i] = c]]

LowerChar(c) == IF c \in DOMAIN ToLower THEN ToLower[c] ELSE c

UpperChar(c) == IF c \in DOMAIN ToUpper THEN ToUpper[c] ELSE c

Lower(s) == [i \in DOMAIN s |-> LowerChar(s[i])]
Upper(s) == [i \in DOMAIN s |-> UpperChar(s[i])]

\* str.strip(): drop leading and trailing whitespace
RECURSIVE LStrip(_)
LStrip(s) == IF s # <<>> /\ IsSpace(Head(s)) THEN LStrip(Tail(s)) ELSE s

RECURSIVE RStrip(_)
RStrip(s) ==
    IF s # <<>> /\ IsSpace(s[Len(s)]) THEN RStrip(SubSeq(s, 1, Len(s) - 1)) ELSE s

Strip(s) == RStrip(LStrip(s))

NameLimit == 20

\* a test that lets a name of any length through
NameOk_AnyLength(stripped) == stripped # <<>>

\* "not name or len(name) > 20" is the rejection test
NameOk(stripped) == stripped # <<>> /\ Len(stripped) <= NameLimit

Repeat(c, n) == [i \in 1..n |-> c]

---------------------------------------------------------------------------
(* Join codes *)

CodeLength == 4

\* chars = 'ABCDEFGHJKMNPQRSTUVWXYZ23456789'
chars == << "A", "B", "C", "D", "E", "F", "G", "H", "J", "K", "M", "N", "P", "Q", "R",
            "S", "T", "U", "V", "W", "X", "Y", "Z", "2", "3", "4", "5", "6", "7", "8",
            "9" >>

RECURSIVE Power(_, _)
Power(b, n) == IF n = 0 THEN 1 ELSE b * Power(b, n - 1)

\* the k-th string of the given length over chars, in the order of chars
CodeNumber(k, length) ==
    [i \in 1..length |-> chars[((k \div Power(Len(chars), length - i)) % Len(chars)) + 1]]

\* generate_join_code(length): ''.join(random.choice(chars) for _ in range(length)),
\* every value it may return in the model (the first MaxCodes strings over chars)
generate_join_code(length) == { CodeNumber(k, length) : k \in 0..(MaxCodes - 1) }

---------------------------------------------------------------------------
(* Values *)

NoId == 0                      \* None where a team_id / player_id is expected
EmptyDict == <<>>              \* {}
DefaultState == "LOBBY"

Sids == { "s1", "s2" }
Uuids == 1..MaxUuid

\* the inputs the calls are tried with
TeamNameInputs == { << " ", "A" >>, Repeat("B", NameLimit),
                    Repeat("x", NameLimit + 1) }
PlayerNameInputs == { << "p" >>, << "Q", " " >>, << " " >> }
JoinCodeInputs ==
    { CodeNumber(k, CodeLength) : k \in 1..MaxCodes }
        \cup { << " " >> \o Lower(CodeNumber(0, CodeLength)) }
PointInputs == { -1, 1 }
\* (team_id, player_id) pairs a client may have stored: a player's uuid is drawn
\* after its team's
IdentityInputs == { id \in Uuids \X Uuids : id[1] < id[2] }
StateDataInputs == { EmptyDict, [round |-> 1] }
\* names the calls are also examined with, beyond those they are made with
TeamNamesChecked == TeamNameInputs \cup { << "a" >>, << >> }
PlayerNamesChecked == PlayerNameInputs \cup { << "P" >>, << >> }

Get(d, k, default) == IF k \in DOMAIN d THEN d[k] ELSE default

Without(f, k) == [x \in DOMAIN f \ {k} |-> f[x]]

\* the SessionManager's fields, with the uuid4() values used so far
Mem(ts, ss, jc, cs, sd, uu) ==
    [teams |-> ts, sessions |-> ss, join_codes |-> jc, current_state |-> cs,
     state_data |-> sd, uuid |-> uu]

Memory == Mem(teams, sessions, join_codes, current_state, state_data, nextUuid)

\* a team as create_team builds it (session_manager.py 321-334)
NewTeam(team_name, player_name, join_code, color, player_id, t) ==
    [ name |-> team_name, score |-> 0, status |-> "active", eliminated |-> FALSE,
      join_code |-> join_code, color |-> color,
      players |-> (player_id :> [name |-> player_name, joined_at |-> t]) ]

NewSession(team_id, player_id, t) ==
    [ team_id |-> team_id, player_id |-> player_id, last_seen |-> t ]

\* the dict (or bool) a call returns, with the name of the call
Ret(op, success, team_id, player_id, message) ==
    [ op |-> op, success |-> success, team_id |-> team_id, player_id |-> player_id,
      message |-> message ]

\* what a call leaves: the memory, the answer, and whether _save_scores ran
Out(m, ret, saved) == [mem |-> m, ret |-> ret, saved |-> saved]

---------------------------------------------------------------------------
(* Files: json.dump / json.load *)

Absent == [kind |-> "absent"]

\* json.dump(data, f): one complete document
json_dump(data) == [kind |-> "json", doc |-> data]

\* a file cut short (a crash in the middle of a write or a copy, a damaged disk)
Truncated(file) == [kind |-> "truncated", doc |-> file.doc]

\* a file whose bytes do not decode as text, or whose JSON is not an object:
\* f.read() raises UnicodeDecodeError, data.get raises AttributeError
Garbled(file) == [kind |-> "garbled", doc |-> file.doc]

Exists(file) == file.kind # "absent"

\* json.load(f) returns a dict
Parses(file) == file.kind = "json"

\* "except (json.JSONDecodeError, IOError)": what reading the file raises is not
\* caught by _load_scores and leaves SessionManager.__init__
Uncaught(file) == file.kind = "garbled"

\* the dict _save_scores dumps
Data(m) ==
    [teams |-> m.teams, sessions |-> m.sessions, current_state |-> m.current_state,
     state_data |-> m.state_data]

\* a load that leaves the lookup empty
RebuildJoinCodes_Skipped(ts) == EmptyDict

\* the join_codes lookup as _load_scores rebuilds it: later teams overwrite
RebuildJoinCodes(ts) ==
    [ c \in { ts[t].join_code : t \in DOMAIN ts } |->
        CHOOSE t \in DOMAIN ts :
            /\ ts[t].join_code = c
            /\ \A u \in DOMAIN ts : ts[u].join_code = c => u <= t ]

\* SessionManager.__init__, lines 70-75
FreshMemory(uu) == Mem(EmptyDict, EmptyDict, EmptyDict, DefaultState, EmptyDict, uu)

\* the assignments _load_scores makes from one parsed file
LoadedFrom(file, uu) ==
    LET data == file.doc
        ts == Get(data, "teams", EmptyDict)
    IN  Mem(ts, Get(data, "sessions", EmptyDict), RebuildJoinCodes(ts),
            Get(data, "current_state", DefaultState),
            Get(data, "state_data", EmptyDict), uu)

\* _load_scores: the file it loaded (source_name), "fresh" when it loaded none,
\* "failed" when an exception left the for loop
LoadedSource(main, backup) ==
    IF Exists(main) /\ Parses(main) THEN "main"
    ELSE IF Exists(main) /\ Uncaught(main) THEN "failed"
    ELSE IF Exists(backup) /\ Parses(backup) THEN "backup"
    ELSE IF Exists(backup) /\ Uncaught(backup) THEN "failed"
    ELSE "fresh"

\* _load_scores: what is in memory afterwards; a failed startup leaves no
\* SessionManager, the fields are those __init__ had set
LoadScores(main, backup, uu) ==
    CASE LoadedSource(main, backup) = "main" -> LoadedFrom(main, uu)
      [] LoadedSource(main, backup) = "backup" -> LoadedFrom(backup, uu)
      [] OTHER -> FreshMemory(uu)

\* _load_scores: the primary file afterwards (shutil.copy2(backup_file, scores_file))
RestoredPrimary(main, backup) ==
    IF LoadedSource(main, backup) = "backup" THEN backup ELSE main

\* _save_scores with no crash and no I/O fault, as one step
SaveScores(m) ==
    /\ primary' = json_dump(Data(m))
    /\ bak' = IF Exists(primary) THEN primary ELSE bak
    /\ tmp' = Absent

NoSave == UNCHANGED << primary, bak, tmp >>

---------------------------------------------------------------------------
(* SessionManager: the operations as functions of the memory *)

\* create_team without its reconnect check
ExistingTeam_Skipped(ss, ts, sid) == NoId

\* "if session_id in self.sessions ... if existing_team_id in self.teams":
\* the team the session is already on, or NoId
ExistingTeam(ss, ts, sid) ==
    IF sid \in DOMAIN ss /\ ss[sid].team_id \in DOMAIN ts THEN ss[sid].team_id ELSE NoId

\* create_team without its duplicate-name check
TeamNameTaken_Never(ts, team_name) == FALSE

\* "team_data['name'].lower() == team_name.lower()" for some team
TeamNameTaken(ts, team_name) ==
    \E t \in DOMAIN ts : Lower(ts[t].name) = Lower(team_name)

\* "pdata['name'].lower() == player_name.lower()" for some player of the team
PlayerNameTaken(team, player_name) ==
    \E p \in DOMAIN team.players : Lower(team.players[p].name) = Lower(player_name)

\* generate_join_code() called once, with no collision loop
UniqueJoinCodes_NoRetry(jc) == generate_join_code(CodeLength)

\* generate_join_code() repeated "while join_code in self.join_codes"
UniqueJoinCodes(jc) == { c \in generate_join_code(CodeLength) : c \notin DOMAIN jc }

PaletteSize == 8

\* colors handed out by the number of live teams alone
AssignTeamColor_ByCount(ts) == (Cardinality(DOMAIN ts) % PaletteSize) + 1

\* _assign_team_color
AssignTeamColor(ts) ==
    LET used_colors == { ts[t].color : t \in DOMAIN ts }
        free == { c \in 1..PaletteSize : c \notin used_colors }
    IN  IF free # {} THEN CHOOSE c \in free : \A d \in free : c <= d
        ELSE (Cardinality(DOMAIN ts) % PaletteSize) + 1

\* the answer of the reconnect branch of create_team / join_team
Reconnected(op, m, sid, team_id) ==
    Ret(op, TRUE, team_id, m.sessions[sid].player_id, "Reconnected to existing team")

Failure(op, message) == Ret(op, FALSE, NoId, NoId, message)

\* create_team, lines 311-340: the memory with the new team, join code and session
Created(m, team_name, player_name, sid, join_code, t) ==
    LET team_id == m.uuid + 1
        player_id == m.uuid + 2
    IN  Mem(m.teams @@ (team_id :>
                NewTeam(team_name, player_name, join_code, AssignTeamColor(m.teams),
                        player_id, t)),
            (sid :> NewSession(team_id, player_id, t)) @@ m.sessions,
            (join_code :> team_id) @@ m.join_codes,
            m.current_state, m.state_data, m.uuid + 2)

\* a call that has not returned
NotReturned(op) == Ret(op, FALSE, NoId, NoId, "")

\* create_team, lines 269-282, outside the lock: the failure it returns, if any
CreateTeamValidation(team_name, player_name) ==
    IF ~NameOk(team_name)
    THEN Failure("create_team", "Team name must be 1-20 characters")
    ELSE IF ~NameOk(player_name)
    THEN Failure("create_team", "Player name must be 1-20 characters")
    ELSE NotReturned("create_team")

\* create_team, lines 285-309, under the lock: the reconnect or the duplicate-name
\* failure it returns, if any
CreateTeamCheck(m, team_name, sid) ==
    LET existing == ExistingTeam(m.sessions, m.teams, sid)
    IN  IF existing # NoId THEN Reconnected("create_team", m, sid, existing)
        ELSE IF TeamNameTaken(m.teams, team_name)
        THEN Failure("create_team", "Team name already taken")
        ELSE NotReturned("create_team")

\* create_team, lines 311-356, under the lock: the team is made and saved
CreateTeamWrite(m, team_name, player_name, sid, join_code, t) ==
    Out(Created(m, team_name, player_name, sid, join_code, t),
        Ret("create_team", TRUE, m.uuid + 1, m.uuid + 2, "Team created successfully"),
        TRUE)

\* create_team; join_code is what the generate_join_code loop ended with
create_team(m, team_name_in, player_name_in, sid, join_code, t) ==
    LET team_name == Strip(team_name_in)
        player_name == Strip(player_name_in)
        invalid == CreateTeamValidation(team_name, player_name)
        early == CreateTeamCheck(m, team_name, sid)
    IN  IF invalid # NotReturned("create_team") THEN Out(m, invalid, FALSE)
        ELSE IF early # NotReturned("create_team") THEN Out(m, early, FALSE)
        ELSE CreateTeamWrite(m, team_name, player_name, sid, join_code, t)

\* join_team, lines 412-422: the memory with the new player and session
Joined(m, team_id, player_name, sid, t) ==
    LET player_id == m.uuid + 1
    IN  Mem([m.teams EXCEPT ![team_id].players =
                @ @@ (player_id :> [name |-> player_name, joined_at |-> t])],
            (sid :> NewSession(team_id, player_id, t)) @@ m.sessions,
            m.join_codes, m.current_state, m.state_data, m.uuid + 1)

\* a lookup that hands an unknown code to some team
TeamByCode_AnyTeam(jc, join_code) ==
    IF join_code \in DOMAIN jc THEN jc[join_code]
    ELSE IF jc # EmptyDict THEN jc[CHOOSE c \in DOMAIN jc : TRUE] ELSE NoId

\* "if join_code not in self.join_codes ... team_id = self.join_codes[join_code]":
\* the team that owns the code, or NoId
TeamByCode(jc, join_code) == IF join_code \in DOMAIN jc THEN jc[join_code] ELSE NoId

\* join_team; the success message, "Joined team <name>", is kept without the name
join_team(m, join_code_in, player_name_in, sid, t) ==
    LET player_name == Strip(player_name_in)
        join_code == Upper(Strip(join_code_in))
        existing == ExistingTeam(m.sessions, m.teams, sid)
        team_id == TeamByCode(m.join_codes, join_code)
    IN  IF ~NameOk(player_name)
        THEN Out(m, Failure("join_team", "Player name must be 1-20 characters"), FALSE)
        ELSE IF existing # NoId
        THEN Out(m, Reconnected("join_team", m, sid, existing), FALSE)
        ELSE IF team_id = NoId
        THEN Out(m, Failure("join_team", "Invalid join code"), FALSE)
        ELSE IF PlayerNameTaken(m.teams[team_id], player_name)
        THEN Out(m, Failure("join_team", "Player name already taken on this team"), FALSE)
        ELSE Out(Joined(m, team_id, player_name, sid, t),
                 Ret("join_team", TRUE, team_id, m.uuid + 1, "Joined team"),
                 TRUE)

\* the answer of a call that returns a bool or nothing
Call(op, success) == Ret(op, success, NoId, NoId, "")

reassociate_session(m, sid, team_id, player_id, t) ==
    IF team_id \notin DOMAIN m.teams \/ player_id \notin DOMAIN m.teams[team_id].players
    THEN Out(m, Call("reassociate_session", FALSE), FALSE)
    ELSE Out([m EXCEPT !.sessions = (sid :> NewSession(team_id, player_id, t)) @@ @],
             Call("reassociate_session", TRUE), TRUE)

\* a score that cannot go below zero
Scored_Floored(score, points) == IF score + points < 0 THEN 0 ELSE score + points

\* "self.teams[team_id]['score'] += points"
Scored(score, points) == score + points

add_points(m, team_id, points) ==
    IF team_id \notin DOMAIN m.teams
    THEN Out(m, Call("add_points", FALSE), FALSE)
    ELSE Out([m EXCEPT !.teams[team_id].score = Scored(@, points)],
             Call("add_points", TRUE), TRUE)

\* a kick that leaves the team's code in the index
KickedJoinCodes_Kept(jc, team) == jc

\* kick_team, lines 604-614: what is left of the join codes and of the sessions
KickedJoinCodes(jc, team) == Without(jc, team.join_code)

\* kick_team without its sweep over the sessions
KickedSessions_Kept(ss, team_id) == ss

KickedSessions(ss, team_id) ==
    [ sid \in { s \in DOMAIN ss : ss[s].team_id # team_id } |-> ss[sid] ]

kick_team(m, team_id) ==
    IF team_id \notin DOMAIN m.teams
    THEN Out(m, Call("kick_team", FALSE), FALSE)
    ELSE Out([m EXCEPT !.join_codes = KickedJoinCodes(@, m.teams[team_id]),
                       !.teams = Without(@, team_id),
                       !.sessions = KickedSessions(@, team_id)],
             Call("kick_team", TRUE), TRUE)

\* a reset that forgets the connections also when the teams are kept
reset_game_DropsSessions(m, preserve_teams) ==
    Out([m EXCEPT !.teams = IF preserve_teams
                            THEN [ t \in DOMAIN @ |->
                                     [@[t] EXCEPT !.score = 0, !.status = "active",
                                                  !.eliminated = FALSE] ]
                            ELSE EmptyDict,
                  !.sessions = EmptyDict,
                  !.join_codes = IF preserve_teams THEN @ ELSE EmptyDict],
        Call("reset_game", TRUE), TRUE)

reset_game(m, preserve_teams) ==
    IF preserve_teams
    THEN Out([m EXCEPT !.teams =
                 [ t \in DOMAIN @ |->
                     [@[t] EXCEPT !.score = 0, !.status = "active", !.eliminated = FALSE] ]],
             Call("reset_game", TRUE), TRUE)
    ELSE Out([m EXCEPT !.teams = EmptyDict, !.sessions = EmptyDict,
                       !.join_codes = EmptyDict],
             Call("reset_game", TRUE), TRUE)

\* SESSION_TTL_SECONDS = 24 * 60 * 60
SESSION_TTL_SECONDS == 86400

\* touch_session that leaves last_seen as it was
touch_session_Skipped(m, sid, t) == Out(m, Call("touch_session", FALSE), FALSE)

\* a sweep that also takes the sessions that are exactly as old as the TTL
Stale_AtTTL(last_seen, t) == t - last_seen >= SESSION_TTL_SECONDS

\* "if now - last_seen > self.SESSION_TTL_SECONDS"
Stale(last_seen, t) == t - last_seen > SESSION_TTL_SECONDS

\* _cleanup_stale_sessions at time t: the stale sessions are deleted, and the
\* files are written when there was one
cleanup_stale_sessions(m, t) ==
    LET stale_session_ids == { sid \in DOMAIN m.sessions : Stale(m.sessions[sid].last_seen, t) }
    IN  Out([m EXCEPT !.sessions = [ sid \in DOMAIN @ \ stale_session_ids |-> @[sid] ]],
            Call("_cleanup_stale_sessions", TRUE), stale_session_ids # {})

\* touch_session: last_seen moves, and _save_scores is not called
touch_session(m, sid, t) ==
    IF sid \in DOMAIN m.sessions
    THEN Out([m EXCEPT !.sessions[sid].last_seen = t], Call("touch_session", TRUE), FALSE)
    ELSE Out(m, Call("touch_session", FALSE), FALSE)

\* "state_data or {}"
OrEmpty(sd) == IF sd # EmptyDict THEN sd ELSE EmptyDict

\* SessionManager.set_state
store_state(m, new_state, sd) ==
    Out([m EXCEPT !.current_state = new_state, !.state_data = OrEmpty(sd)],
        Call("set_state", TRUE), TRUE)

---------------------------------------------------------------------------
(* SessionManager: a call as one step under the lock, with its save *)

SetMemory(m) ==
    /\ teams' = m.teams
    /\ sessions' = m.sessions
    /\ join_codes' = m.join_codes
    /\ current_state' = m.current_state
    /\ state_data' = m.state_data
    /\ nextUuid' = m.uuid

\* the memory and the files after a call
Written(out) ==
    /\ booted # "failed"
    /\ UNCHANGED now
    /\ SetMemory(out.mem)
    /\ booted' = "none"
    /\ IF out.saved THEN SaveScores(out.mem) ELSE NoSave
    /\ UNCHANGED saveVars

\* a call, while uuid4() values are left for it
Commit(out) ==
    /\ out.mem.uuid > nextUuid => out.mem.uuid <= MaxUuid
    /\ Written(out)

Apply(out) == Commit(out) /\ UNCHANGED << threadVars, routerVars, connVars, timerVars >>

CreateTeam ==
    \E tn \in TeamNameInputs, pn \in PlayerNameInputs, sid \in Sids :
      \E join_code \in UniqueJoinCodes(join_codes) :
        Apply(create_team(Memory, tn, pn, sid, join_code, now))

JoinTeam ==
    \E jc \in JoinCodeInputs, pn \in PlayerNameInputs, sid \in Sids :
      Apply(join_team(Memory, jc, pn, sid, now))

ReassociateSession ==
    \E sid \in Sids, id \in IdentityInputs :
      Apply(reassociate_session(Memory, sid, id[1], id[2], now))

AddPoints ==
    \E team_id \in Uuids, n \in PointInputs :
      LET out == add_points(Memory, team_id, n)
      IN  /\ \A u \in DOMAIN out.mem.teams : out.mem.teams[u].score \in 0..MaxScore
          /\ Apply(out)

KickTeam == \E team_id \in Uuids : Apply(kick_team(Memory, team_id))

ResetGame == \E preserve \in BOOLEAN : Apply(reset_game(Memory, preserve))

\* SessionManager.set_state called on its own
SetPhase ==
    \E ph \in { << "LOBBY", EmptyDict >>, << "TIMER", [round |-> 1] >> } :
      Apply(store_state(Memory, ph[1], ph[2]))

---------------------------------------------------------------------------
(* create_team called from several connection threads *)

NoThread == "none"
Threads == { "t1", "t2", "t3" }

NoCall == [team_name |-> << >>, player_name |-> << >>, sid |-> "s1",
           ret |-> NotReturned("create_team")]

\* the arguments the concurrent calls are made with
ThreadTeamNames == { << "A" >>, << " ", "a" >>, << "B" >> }
ThreadPlayerNames == { << "p" >>, << " " >> }

\* a with block that excludes nobody
LockFree_NoMutex(holder) == TRUE

\* "with self._lock" is entered when no other thread holds the lock
LockFree(holder) == holder = NoThread

Returns(th, ret) ==
    /\ pc' = [pc EXCEPT ![th] = "done"]
    /\ call' = [call EXCEPT ![th].ret = ret]

\* lines 269-282: the names are stripped and validated, no lock held
Validate(th) ==
    /\ pc[th] = "idle"
    /\ \E tn \in ThreadTeamNames, pn \in ThreadPlayerNames, sid \in Sids :
         LET invalid == CreateTeamValidation(Strip(tn), Strip(pn))
         IN  /\ pc' = [pc EXCEPT ![th] =
                         IF invalid = NotReturned("create_team") THEN "acquire" ELSE "done"]
             /\ call' = [call EXCEPT ![th] =
                           [team_name |-> Strip(tn), player_name |-> Strip(pn),
                            sid |-> sid, ret |-> invalid]]
    /\ UNCHANGED << registryVars, fileVars, now, nextUuid, booted, lock, saveVars,
                    routerVars, connVars, timerVars >>

\* line 284
Acquire(th) ==
    /\ pc[th] = "acquire"
    /\ LockFree(lock)
    /\ lock' = th
    /\ pc' = [pc EXCEPT ![th] = "check"]
    /\ UNCHANGED << registryVars, fileVars, now, nextUuid, booted, call, saveVars,
                    routerVars, connVars, timerVars >>

\* lines 285-309: the reconnect check and the duplicate-name check; a return
\* leaves the with block and releases the lock
Check(th) ==
    /\ pc[th] = "check"
    /\ LET early == CreateTeamCheck(Memory, call[th].team_name, call[th].sid)
       IN  IF early # NotReturned("create_team")
           THEN Returns(th, early) /\ lock' = NoThread
           ELSE pc' = [pc EXCEPT ![th] = "create"] /\ UNCHANGED << call, lock >>
    /\ UNCHANGED << registryVars, fileVars, now, nextUuid, booted, saveVars, routerVars,
                    connVars, timerVars >>

\* lines 311-356: code, ids, colour, the three writes, the save, the return
Create(th) ==
    /\ pc[th] = "create"
    /\ \E join_code \in UniqueJoinCodes(join_codes) :
         LET out == CreateTeamWrite(Memory, call[th].team_name, call[th].player_name,
                                    call[th].sid, join_code, now)
         IN  Commit(out) /\ Returns(th, out.ret)
    /\ lock' = NoThread
    /\ UNCHANGED << routerVars, connVars, timerVars >>

---------------------------------------------------------------------------
(* Startup: SessionManager.__init__ on the files the last run left *)

\* what may have happened to scores.json while the process was down
Damaged(file) ==
    { file } \cup { Absent }
        \cup (IF Parses(file) THEN { Truncated(file), Garbled(file) } ELSE {})

Startup(main, backup) ==
    /\ SetMemory(LoadScores(main, backup, nextUuid))
    /\ primary' = RestoredPrimary(main, backup)
    /\ bak' = backup

Restart ==
    \E main \in Damaged(primary) :
      /\ Startup(main, bak)
      /\ booted' = LoadedSource(main, bak)
      /\ UNCHANGED << tmp, now, threadVars, saveVars, routerVars, connVars, timerVars >>

---------------------------------------------------------------------------
(* _save_scores step by step, and a crash of the process *)

\* a write that has not been flushed to the end
WrittenTmp_Partial(doc) == Truncated(json_dump(doc))

\* lines 164-165: the temporary file once json.dump has returned and it is closed
WrittenTmp(doc) == json_dump(doc)

\* the steps of _save_scores at which the file system can refuse (OSError):
\* mkdir (145), mkstemp (158), json.dump (164), copy2 (172), os.replace (178)
SaveFaults == { "mkdir", "mkstemp", "dump", "backup", "replace" }

\* a save whose mkdir is inside the try as well
LeavesSave_AllCaught(step) == FALSE

\* whether the OSError leaves _save_scores: "self.data_dir.mkdir(...)" stands
\* before the try, the other steps are under "except (IOError, OSError)" or under
\* the inner "except IOError" of the backup copy
LeavesSave(step) == step = "mkdir"

\* lines 180-189: after a failed save the primary is restored from the backup
\* when the backup exists and the primary does not
RestoredAfterFailure(main, backup) ==
    IF Exists(backup) /\ ~Exists(main) THEN backup ELSE main

\* _save_scores of memory m with an OSError at the given step: the three files
\* afterwards, and whether the exception reaches the caller of _save_scores
SaveWithFault(m, main, backup, temp, step) ==
    CASE step = "mkdir" ->
           [ primary |-> main, bak |-> backup, tmp |-> temp, raised |-> LeavesSave(step) ]
      [] step \in { "mkstemp", "dump" } ->
           [ primary |-> RestoredAfterFailure(main, backup), bak |-> backup,
             tmp |-> temp, raised |-> LeavesSave(step) ]
      [] step = "backup" ->
           [ primary |-> json_dump(Data(m)), bak |-> backup, tmp |-> Absent,
             raised |-> LeavesSave(step) ]
      [] step = "replace" ->
           [ primary |-> main, bak |-> IF Exists(main) THEN main ELSE backup,
             tmp |-> WrittenTmp(Data(m)), raised |-> LeavesSave(step) ]

\* a call with outcome out whose save meets the fault: the memory keeps the
\* change made before _save_scores; the caller gets the call's answer, or the
\* exception when it leaves _save_scores (no call catches it)
CallWithFault(out, main, backup, temp, step) ==
    LET files == SaveWithFault(out.mem, main, backup, temp, step)
    IN  [ mem |-> out.mem, files |-> files,
          ret |-> IF files.raised THEN Call("OSError", FALSE) ELSE out.ret ]

\* a mutating call has changed the memory under the lock and enters _save_scores
BeginSave(out) ==
    /\ savePc = "idle"
    /\ out.saved
    /\ out.mem.uuid <= MaxUuid
    /\ SetMemory(out.mem)
    /\ saveDoc' = Data(out.mem)
    /\ preSave' = primary
    /\ savePc' = "mkstemp"
    /\ booted' = "none"
    /\ UNCHANGED << fileVars, now, threadVars, routerVars, connVars, timerVars >>

MutatingCall ==
    \/ \E tn \in { << "A" >>, << "B" >> }, sid \in Sids :
         \E join_code \in UniqueJoinCodes(join_codes) :
           BeginSave(create_team(Memory, tn, << "p" >>, sid, join_code, now))
    \/ \E team_id \in Uuids : BeginSave(kick_team(Memory, team_id))
    \/ \E g \in { "LOBBY", "TIMER" } : BeginSave(store_state(Memory, g, EmptyDict))

SaveStep(from, to) ==
    /\ savePc = from
    /\ savePc' = to
    /\ UNCHANGED << registryVars, now, nextUuid, booted, saveDoc, preSave, threadVars,
                    routerVars, connVars, timerVars >>

\* lines 158-162: tempfile.mkstemp creates the file, empty
Mkstemp ==
    /\ SaveStep("mkstemp", "dump")
    /\ tmp' = Truncated(json_dump(saveDoc))
    /\ UNCHANGED << primary, bak >>

\* lines 164-165
Dump ==
    /\ SaveStep("dump", "backup")
    /\ tmp' = WrittenTmp(saveDoc)
    /\ UNCHANGED << primary, bak >>

\* lines 171-173: shutil.copy2 opens the backup for writing, then copies
BackupOpen ==
    /\ SaveStep("backup", IF Exists(primary) THEN "copy" ELSE "replace")
    /\ bak' = IF Exists(primary) THEN Truncated(primary) ELSE bak
    /\ UNCHANGED << primary, tmp >>

BackupCopy ==
    /\ SaveStep("copy", "replace")
    /\ bak' = primary
    /\ UNCHANGED << primary, tmp >>

\* line 178: os.replace(temp_path, scores_file)
Replace ==
    /\ SaveStep("replace", "idle")
    /\ primary' = tmp
    /\ tmp' = Absent
    /\ UNCHANGED bak

\* the process dies wherever it is and is started again: __init__ runs _load_scores
Crash ==
    /\ Startup(primary, bak)
    /\ booted' = LoadedSource(primary, bak)
    /\ savePc' = "idle"
    /\ UNCHANGED << tmp, now, saveDoc, preSave, threadVars, routerVars, connVars, timerVars >>

---------------------------------------------------------------------------
(* EventResponse, EventContext and EventRouter._process_response *)

NoSid == ""                    \* None where a session id is expected
NoError == ""                  \* the empty error dict
Never == << >>                 \* no event sent yet; << t >> is an event at time t

\* EventResponse(): every channel empty.  A channel is the set of its event names,
\* to_specific_team maps a team_id to such a set, error is its code
EventResponse ==
    [ broadcast |-> {}, to_sender |-> {}, to_team |-> {}, to_team_others |-> {},
      to_admin |-> {}, to_specific_team |-> EmptyDict, error |-> NoError ]

\* EventContext as handle_event builds it (lines 24-54)
EventContext(m, sid) ==
    LET session_data == Get(m.sessions, sid, [team_id |-> NoId, player_id |-> NoId])
    IN  [ session_id |-> sid, team_id |-> session_data.team_id,
          player_id |-> session_data.player_id, is_admin |-> FALSE ]

\* "context" is None: set_state passes None with the answers of on_exit and on_enter
NoContext == [ session_id |-> NoSid, team_id |-> NoId, player_id |-> NoId,
               is_admin |-> FALSE ]

\* the audiences of socketio.emit: no room, room=sid, room="team:<id>", room="admin"
ToAll == [ kind |-> "all", sid |-> NoSid, team |-> NoId ]

SidRoom(sid) == [ kind |-> "sid", sid |-> sid, team |-> NoId ]

TeamRoom(team_id) == [ kind |-> "team", sid |-> NoSid, team |-> team_id ]

AdminRoom == [ kind |-> "admin", sid |-> NoSid, team |-> NoId ]

\* one socketio.emit(event, payload, room=..., skip_sid=...); of the payload the
\* error code is kept
Emit(event, code, room, skip_sid) ==
    [ event |-> event, code |-> code, room |-> room, skip_sid |-> skip_sid ]

\* the keys of a dict in the order the for loop meets them
RECURSIVE Items(_)
Items(keys) ==
    IF keys = {} THEN << >>
    ELSE LET k == CHOOSE x \in keys : TRUE IN << k >> \o Items(keys \ { k })

\* "for event, payload in channel.items(): self.socketio.emit(event, payload, ...)"
Emits(channel, room, skip_sid) ==
    [ i \in 1..Cardinality(channel) |-> Emit(Items(channel)[i], NoError, room, skip_sid) ]

\* a team-wide emit that skips nobody
SkipSid_Nobody(context) == NoSid

\* "skip_sid=context.session_id" of the to_team_others channel
SkipSid(context) == context.session_id

\* lines 170-173
RECURSIVE SpecificEmits(_)
SpecificEmits(to_specific_team) ==
    IF DOMAIN to_specific_team = {} THEN << >>
    ELSE LET team_id == CHOOSE t \in DOMAIN to_specific_team : TRUE
         IN  Emits(to_specific_team[team_id], TeamRoom(team_id), NoSid)
               \o SpecificEmits(Without(to_specific_team, team_id))

\* _process_response: the emit calls it makes, in order
ProcessResponse(response, context) ==
    Emits(response.broadcast, ToAll, NoSid)
      \o (IF context.session_id # NoSid
          THEN Emits(response.to_sender, SidRoom(context.session_id), NoSid) ELSE << >>)
      \o (IF context.team_id # NoId
          THEN Emits(response.to_team, TeamRoom(context.team_id), NoSid) ELSE << >>)
      \o (IF context.team_id # NoId
          THEN Emits(response.to_team_others, TeamRoom(context.team_id), SkipSid(context))
          ELSE << >>)
      \o Emits(response.to_admin, AdminRoom, NoSid)
      \o SpecificEmits(response.to_specific_team)
      \o (IF response.error # NoError /\ context.session_id # NoSid
          THEN << Emit("error", response.error, SidRoom(context.session_id), NoSid) >>
          ELSE << >>)

---------------------------------------------------------------------------
(* The cartridges: LobbyGame, TimerGame, VictoryGame, MinesweeperGame *)

NotEntered == [entered |-> FALSE]
NoEmit == [event |-> "none"]
NoReturn == [call |-> "", value |-> "none"]
NoGame == ""                   \* EventRouter.current_game_id is None

\* GAME_IDs of cartridges (server/games/__init__.py ALL_GAMES), and one that is none
GameIds == { "LOBBY", "TIMER", "VICTORY", "MINESWEEPER" }
StateInputs == GameIds \cup { "BOGUS" }

\* the cartridges that registered: all of them, or all but the lobby
RegistryInputs == { GameIds, GameIds \ { "LOBBY" } }

\* the class attributes EVENTS and ADMIN_EVENTS of each cartridge
EVENTS(g) ==
    CASE g = "TIMER" -> { "timer_control" }
      [] g = "MINESWEEPER" -> { "toggle_elimination" }
      [] OTHER -> {}

ADMIN_EVENTS(g) == {}

GLOBAL_ADMIN_EVENTS == { "music_toggle", "music_next", "music_previous" }

\* a check that lets every event through to the cartridge
Declared_Anything(g, event_name) == TRUE

\* handle_event lines 68-70: the event is in one of the three mappings
Declared(g, event_name) ==
    event_name \in EVENTS(g) \cup ADMIN_EVENTS(g) \cup GLOBAL_ADMIN_EVENTS

\* a cartridge's on_enter: "self._state = state_data"
OnEnter(sd) == [entered |-> TRUE, state |-> sd]

\* TimerGame.on_enter
TimerState(sd) ==
    LET duration == Get(sd, "duration_seconds", 180)
    IN  [ total_seconds |-> duration, remaining_seconds |-> duration,
          duration_seconds |-> duration, start_time |-> 0, paused |-> FALSE,
          message |-> Get(sd, "message", "") ]

\* None where dict.get finds no key; a value that is there is << v >>
None == << >>

WithoutKeys(f, ks) == [x \in DOMAIN f \ ks |-> f[x]]

\* TimelineGame.on_enter
TimelineState(sd, team_ids) ==
    [ puzzle_id |-> Get(sd, "puzzle_id", None),
      correct_order |-> Get(sd, "correct_order", << >>),
      winners |-> << >>,
      submissions |-> EmptyDict,
      statuses |-> [ tid \in team_ids |-> "thinking" ],
      items |-> Get(sd, "items", << >>) ]

\* PriceGuessGame.on_enter
PriceGuessState(sd) ==
    [ product_id |-> Get(sd, "product_id", None),
      image_url |-> Get(sd, "image_url", None),
      hint |-> Get(sd, "hint", None),
      actual_price |-> Get(sd, "actual_price", None),
      guesses |-> EmptyDict ]

\* PixelPerfectGame.on_enter
PixelPerfectState(sd) ==
    [ round_id |-> Get(sd, "round_id", None),
      image_url |-> Get(sd, "image_url", ""),
      correct_answer |-> Get(sd, "correct_answer", ""),
      locked_by |-> None,
      frozen_teams |-> EmptyDict,
      round_started |-> FALSE,
      round_start_time |-> None ]

\* PictureGuessGame.on_enter
PictureGuessState(sd) ==
    [ picture_id |-> Get(sd, "picture_id", None),
      image_url |-> Get(sd, "image_url", None),
      hint |-> Get(sd, "hint", None),
      answers |-> EmptyDict ]

\* SurvivalGame.on_enter
SurvivalState(sd) ==
    [ round_id |-> Get(sd, "round_id", None),
      question_text |-> Get(sd, "question_text", ""),
      option_a |-> Get(sd, "option_a", "YES"),
      option_b |-> Get(sd, "option_b", "NO"),
      player_votes |-> EmptyDict,
      revealed |-> FALSE ]

\* BuzzerGame.on_enter: nobody has buzzed, no team is frozen
BuzzerState(sd) ==
    [ round_id |-> Get(sd, "round_id", None),
      audio_hint |-> Get(sd, "audio_hint", ""),
      locked_by |-> None,
      frozen_teams |-> EmptyDict ]

\* on_enter of cartridge g; TimelineGame reads self.session_manager.teams
on_enter(g, sd) ==
    CASE g = "TIMER" -> OnEnter(TimerState(sd))
      [] g = "SURVIVAL" -> OnEnter(SurvivalState(sd))
      [] g = "BUZZER" -> OnEnter(BuzzerState(sd))
      [] g = "TIMELINE" -> OnEnter(TimelineState(sd, DOMAIN teams))
      [] g = "PRICEGUESS" -> OnEnter(PriceGuessState(sd))
      [] g = "PIXELPERFECT" -> OnEnter(PixelPerfectState(sd))
      [] g = "PICTUREGUESS" -> OnEnter(PictureGuessState(sd))
      [] OTHER -> OnEnter(sd)

\* re.sub(r'\s*\([^)]*\)\s*$', '', text).strip(): the text loses a bracketed
\* part it ends with, from the leftmost "(" that no ")" follows before the last one
StripParenthetical(text) ==
    LET body == RStrip(text)
        n == Len(body)
        opens == { j \in 1..n : body[j] = "(" /\ \A i \in (j + 1)..(n - 1) : body[i] # ")" }
    IN  IF n > 0 /\ body[n] = ")" /\ opens # {}
        THEN Strip(SubSeq(body, 1, (CHOOSE j \in opens : \A k \in opens : j <= k) - 1))
        ELSE Strip(text)

\* a Timeline state sent out with the order in it
TimelineSanitized_KeepsOrder(st) ==
    [ k \in DOMAIN st \ { "submissions", "winners" } |->
        IF k = "items"
        THEN [ i \in DOMAIN st.items |-> StripParenthetical(st.items[i]) ]
        ELSE st[k] ]

\* TimelineGame.get_sanitized_state_data
TimelineSanitized(st) ==
    [ k \in DOMAIN st \ { "correct_order", "submissions", "winners" } |->
        IF k = "items"
        THEN [ i \in DOMAIN st.items |-> StripParenthetical(st.items[i]) ]
        ELSE st[k] ]

\* self._state of a cartridge: {} until on_enter has run
PrivateState(gs) == IF "state" \in DOMAIN gs THEN gs.state ELSE EmptyDict

\* get_sanitized_state_data of cartridge g
get_sanitized_state_data(g, gs) ==
    LET st == PrivateState(gs)
    IN  IF g = "TIMER"
        THEN [ duration_seconds |->
                 Get(st, "duration_seconds", Get(st, "total_seconds", 180)),
               message |-> Get(st, "message", "") ]
        ELSE CASE g = "TIMELINE" -> TimelineSanitized(st)
               [] g = "PRICEGUESS" -> WithoutKeys(st, { "guesses", "actual_price" })
               [] g = "PIXELPERFECT" ->
                    [ round_id |-> Get(st, "round_id", None),
                      image_url |-> Get(st, "image_url", "") ]
               [] g = "PICTUREGUESS" -> WithoutKeys(st, { "answers" })
               [] g = "SURVIVAL" ->
                    [ round_id |-> Get(st, "round_id", None),
                      question_text |-> Get(st, "question_text", None),
                      option_a |-> Get(st, "option_a", None),
                      option_b |-> Get(st, "option_b", None),
                      total_votes |-> Cardinality(DOMAIN Get(st, "player_votes", EmptyDict)) ]
               [] OTHER -> st

\* event payloads: None, and dicts
NoData == [ none |-> TRUE ]
IsDict(data) == data # NoData

Max(a, b) == IF a >= b THEN a ELSE b

\* what a handler leaves: whether it raised, the cartridge's _state, the registry
\* (with whether it was saved) and the EventResponse
Handled(raised, st, out, response) ==
    [ raised |-> raised, state |-> st, out |-> out, response |-> response ]

Untouched(m) == Out(m, Call("handle_event", TRUE), FALSE)

\* "data.get(...)" on a payload that is no dict: AttributeError
Raises(st, m) == Handled(TRUE, st, Untouched(m), EventResponse)

\* BaseGame.handle_music_toggle / _next / _previous
handle_music(event_name, st, m) ==
    Handled(FALSE, st, Untouched(m), [EventResponse EXCEPT !.broadcast = { event_name }])

\* TimerGame.handle_timer_control
handle_timer_control(data, st, m, t) ==
    IF ~IsDict(data) THEN Raises(st, m)
    ELSE LET action == Get(data, "action", "")
             duration == Get(data, "duration_seconds", 180)
             message == Get(data, "message", "")
             sync == [EventResponse EXCEPT !.broadcast = { "timer_sync" }]
         IN  CASE action = "start" ->
                    Handled(FALSE,
                            [ total_seconds |-> duration, remaining_seconds |-> duration,
                              start_time |-> t, paused |-> FALSE, message |-> message ]
                              @@ st,
                            Untouched(m), sync)
               [] action = "pause" ->
                    Handled(FALSE,
                            IF Get(st, "paused", FALSE) THEN st
                            ELSE [ remaining_seconds |->
                                     Max(0, Get(st, "remaining_seconds", 0)
                                              - (t - Get(st, "start_time", 0))),
                                   paused |-> TRUE ] @@ st,
                            Untouched(m), sync)
               [] OTHER -> Handled(FALSE, st, Untouched(m), EventResponse)

\* a toggle that drops the team's players
ToggledTeam_Emptied(team, eliminated) ==
    [ team EXCEPT !.eliminated = eliminated, !.players = EmptyDict ]

\* SessionManager.toggle_elimination, lines 636-637: the team afterwards
ToggledTeam(team, eliminated) ==
    [ team EXCEPT !.eliminated = eliminated,
                  !.status = IF eliminated THEN "eliminated" ELSE "active" ]

toggle_elimination(m, team_id, eliminated) ==
    IF team_id \notin DOMAIN m.teams
    THEN Out(m, Call("toggle_elimination", FALSE), FALSE)
    ELSE Out([m EXCEPT !.teams[team_id] = ToggledTeam(@, eliminated)],
             Call("toggle_elimination", TRUE), TRUE)

\* SessionManager.set_team_avatar
set_team_avatar(m, team_id, avatar_id) ==
    IF team_id \notin DOMAIN m.teams
    THEN Out(m, Call("set_team_avatar", FALSE), FALSE)
    ELSE Out([m EXCEPT !.teams[team_id] = ("avatar" :> avatar_id) @@ @],
             Call("set_team_avatar", TRUE), TRUE)

\* MinesweeperGame.handle_toggle_elimination
handle_toggle_elimination(data, st, m) ==
    IF ~IsDict(data) THEN Raises(st, m)
    ELSE LET team_id == Get(data, "team_id", NoId)
             eliminated == Get(data, "eliminated", TRUE)
         IN  IF team_id \notin DOMAIN m.teams
             THEN Handled(FALSE, st, Untouched(m),
                          [EventResponse EXCEPT !.error = "INVALID_TEAM"])
             ELSE Handled(FALSE, st, toggle_elimination(m, team_id, eliminated),
                          [EventResponse EXCEPT
                             !.broadcast = { "elimination_update" },
                             !.to_specific_team =
                                 IF eliminated THEN (team_id :> { "eliminated" })
                                 ELSE EmptyDict])

\* BaseGame.handle_event of cartridge g: the handler named by the mappings is called
game_handle_event(g, event_name, data, st, m, t) ==
    CASE event_name \in EVENTS(g) /\ g = "TIMER" -> handle_timer_control(data, st, m, t)
      [] event_name \in EVENTS(g) /\ g = "MINESWEEPER" ->
           handle_toggle_elimination(data, st, m)
      [] event_name \notin EVENTS(g) /\ event_name \in GLOBAL_ADMIN_EVENTS ->
           handle_music(event_name, st, m)
      [] OTHER -> Handled(FALSE, st, Untouched(m),
                          [EventResponse EXCEPT !.error = "UNKNOWN_EVENT"])

---------------------------------------------------------------------------
(* SurvivalGame *)

\* POINTS_FOR_MAJORITY = 100
POINTS_FOR_MAJORITY == 100

NoMajority == ""               \* None where 'A' or 'B' is expected

\* "sum(1 for v in votes.values() if v == vote)"
VoteCount(votes, vote) == Cardinality({ pid \in DOMAIN votes : votes[pid] = vote })

\* lines 111-117 and 142-147: 'A', 'B', or None on a tie
Majority(votes) ==
    IF VoteCount(votes, "A") > VoteCount(votes, "B") THEN "A"
    ELSE IF VoteCount(votes, "B") > VoteCount(votes, "A") THEN "B"
    ELSE NoMajority

\* _get_team_votes: the votes of the players on the team
get_team_votes(m, votes, team_id) ==
    IF team_id \notin DOMAIN m.teams THEN EmptyDict
    ELSE [ pid \in DOMAIN votes \cap DOMAIN m.teams[team_id].players |-> votes[pid] ]

\* a reveal that pays every team with a majority of its own
Aligned_OwnMajority(game_majority, team_majority) == team_majority # NoMajority

\* "if game_majority and team_majority == game_majority"
Aligned(game_majority, team_majority) ==
    game_majority # NoMajority /\ team_majority = game_majority

\* lines 123-171: the teams the loop calls add_points for
TeamsAwarded(m, votes) ==
    { team_id \in DOMAIN m.teams :
        LET team_votes == get_team_votes(m, votes, team_id)
        IN  /\ team_votes # EmptyDict
            /\ Aligned(Majority(votes), Majority(team_votes)) }

\* add_points(team_id, POINTS_FOR_MAJORITY) for each of the teams
RECURSIVE AwardPoints(_, _)
AwardPoints(m, team_ids) ==
    IF team_ids = {} THEN m
    ELSE LET team_id == CHOOSE t \in team_ids : TRUE
         IN  AwardPoints(add_points(m, team_id, POINTS_FOR_MAJORITY).mem,
                         team_ids \ { team_id })

\* SurvivalGame.handle_vote
handle_vote(data, context, st, m) ==
    IF ~IsDict(data) THEN Raises(st, m)
    ELSE LET player_id == context.player_id
             team_id == IF context.team_id # NoId THEN context.team_id
                        ELSE Get(data, "team_id", NoId)
             vote == Get(data, "vote", NoMajority)
             refused(code) == Handled(FALSE, st, Untouched(m),
                                      [EventResponse EXCEPT !.error = code])
         IN  IF player_id = NoId THEN refused("NO_PLAYER")
             ELSE IF team_id = NoId THEN refused("NO_TEAM")
             ELSE IF vote \notin { "A", "B" } THEN refused("INVALID_VOTE")
             ELSE IF team_id \notin DOMAIN m.teams THEN refused("INVALID_TEAM")
             ELSE Handled(FALSE,
                          [st EXCEPT !.player_votes = (player_id :> vote) @@ @],
                          Untouched(m),
                          [EventResponse EXCEPT
                             !.to_admin = { "survival_vote_received" },
                             !.to_sender = { "survival_vote_confirmed" },
                             !.broadcast = { "survival_vote_update" }])

\* SurvivalGame.handle_reveal
handle_reveal(st, m) ==
    IF st.player_votes = EmptyDict
    THEN Handled(FALSE, st, Untouched(m), [EventResponse EXCEPT !.error = "NO_VOTES"])
    ELSE LET awarded == TeamsAwarded(m, st.player_votes)
         IN  Handled(FALSE,
                     [st EXCEPT !.revealed = TRUE],
                     Out(AwardPoints(m, awarded), Call("handle_event", TRUE), awarded # {}),
                     [EventResponse EXCEPT
                        !.broadcast = { "survival_reveal" },
                        !.to_admin = { "survival_round_complete" }])

\* SurvivalGame.handle_reset_round
handle_reset_round(data, st, m) ==
    IF ~IsDict(data) THEN Raises(st, m)
    ELSE Handled(FALSE,
                 [ round_id |-> IF Get(data, "round_id", None) # None
                                THEN data.round_id ELSE st.round_id,
                   question_text |-> IF Get(data, "question_text", "") # ""
                                     THEN data.question_text ELSE st.question_text,
                   option_a |-> IF Get(data, "option_a", "") # ""
                                THEN data.option_a ELSE st.option_a,
                   option_b |-> IF Get(data, "option_b", "") # ""
                                THEN data.option_b ELSE st.option_b,
                   player_votes |-> EmptyDict,
                   revealed |-> FALSE ],
                 Untouched(m),
                 [EventResponse EXCEPT !.broadcast = { "survival_round_reset" }])

---------------------------------------------------------------------------
(* EventRouter.set_state and the restore of the phase at startup *)

\* lines 103-112: the id the router is left pointing at
RouterTarget(new_state, registered) ==
    IF new_state \in registered THEN new_state ELSE "LOBBY"

\* a transition that never calls on_exit
ExitsCurrent_Never(cur, registered) == FALSE

\* lines 92-94: the current cartridge, when there is one, gets on_exit
ExitsCurrent(cur, registered) == cur # NoGame /\ cur \in registered

\* lines 85-119: on_exit of the current cartridge (the cartridges' on_exit return
\* an empty EventResponse and keep their state; an on_exit that raises is logged
\* and the call goes on), the lookup with its fallback, and
\* SessionManager.set_state(new_state, state_data)
Transition(new_state, sd) ==
    LET target == RouterTarget(new_state, games)
    IN  /\ returned.value # "pending"
        /\ entries' = IF ExitsCurrent(current_game_id, games)
                      THEN [entries EXCEPT ![current_game_id] = @ - 1] ELSE entries
        /\ outbox' = ProcessResponse(EventResponse, NoContext)
        /\ current_game_id' = target
        /\ IF target \notin games
           THEN /\ returned' = [call |-> new_state, value |-> "False"]
                /\ UNCHANGED << registryVars, fileVars, now, nextUuid, booted, saveVars >>
           ELSE /\ returned' = [call |-> new_state, value |-> "pending"]
                /\ Commit(store_state(Memory, new_state, sd))
        /\ UNCHANGED << games, gameState, emitted, entered, inflight, threadVars,
                        connVars, timerVars >>

SetState ==
    \E new_state \in StateInputs, sd \in StateDataInputs : Transition(new_state, sd)

\* lines 121-135: on_enter returns, the state_change broadcast goes out with
\* new_state and the cartridge's state
Enter ==
    /\ returned.value = "pending"
    /\ gameState' = [gameState EXCEPT
                       ![current_game_id] = on_enter(current_game_id, state_data)]
    /\ entered' = current_game_id
    /\ entries' = [entries EXCEPT ![current_game_id] = @ + 1]
    /\ outbox' = ProcessResponse(EventResponse, NoContext)
    /\ emitted' = [event |-> "state_change", current_state |-> returned.call,
                   state_data |->
                     get_sanitized_state_data(current_game_id,
                                              gameState'[current_game_id])]
    /\ returned' = [returned EXCEPT !.value = "True"]
    /\ UNCHANGED << registryVars, fileVars, now, nextUuid, booted, saveVars, threadVars,
                    current_game_id, games, inflight, connVars, timerVars >>

\* lines 124-126: on_enter was called and raises
EnterRaises ==
    /\ returned.value = "pending"
    /\ returned' = [returned EXCEPT !.value = "False"]
    /\ entries' = [entries EXCEPT ![current_game_id] = @ + 1]
    /\ UNCHANGED << registryVars, fileVars, now, nextUuid, booted, saveVars, threadVars,
                    current_game_id, games, gameState, emitted, entered, outbox,
                    inflight, connVars, timerVars >>

\* a handle_event call: how far it got ("found" its cartridge, "dropped" the
\* event, the handler "answered", the answer was "handled", or the handler
\* "raised"), the answer while it waits for _process_response, and whether the
\* call before it ended with an exception
Dispatch(stage, game, event_name, data, context, response, prev_raised) ==
    [ stage |-> stage, game |-> game, event_name |-> event_name, data |-> data,
      context |-> context, response |-> response, prev_raised |-> prev_raised ]

NoDispatch == Dispatch("none", NoGame, "", NoData, NoContext, EventResponse, FALSE)

\* app.py 54-66 on the loaded memory: the router is pointed at current_state and
\* the cartridge, when registered, is entered with state_data
RestoredRouter(m) ==
    /\ current_game_id' = m.current_state
    /\ gameState' = [g \in GameIds |->
                       IF g = m.current_state /\ g \in games
                       THEN on_enter(g, m.state_data) ELSE NotEntered]
    /\ entered' = IF m.current_state \in games THEN m.current_state ELSE "none"
    /\ entries' = [g \in GameIds |-> IF g = m.current_state /\ g \in games THEN 1 ELSE 0]
    /\ emitted' = NoEmit
    /\ returned' = NoReturn
    /\ outbox' = << >>
    /\ inflight' = NoDispatch
    /\ UNCHANGED games

\* the process dies (in set_state or between calls) and is started again
RouterCrash ==
    /\ Startup(primary, bak)
    /\ booted' = LoadedSource(primary, bak)
    /\ RestoredRouter(LoadScores(primary, bak, nextUuid))
    /\ UNCHANGED << tmp, now, saveVars, threadVars, connVars, timerVars >>

---------------------------------------------------------------------------
(* EventRouter.handle_event *)

\* the events and payloads the connections send
EventInputs == { "timer_control", "toggle_elimination", "music_toggle", "press_buzzer" }
DataInputs == { NoData, [action |-> "pause"], [team_id |-> 1, eliminated |-> TRUE] }
\* the phases the admin moves between while events arrive
PhaseInputs == { "TIMER", "MINESWEEPER" }

\* lines 56-72: the cartridge the event goes to, or NoGame when it is ignored
LookedUp(cur, registered, event_name) ==
    IF cur = NoGame \/ cur \notin registered \/ ~Declared(cur, event_name)
    THEN NoGame ELSE cur

\* an error sent to every connection
ErrorRoom_Everyone(sid) == ToAll

\* line 83: "room=sid"
ErrorRoom(sid) == SidRoom(sid)

\* a cartridge with its _state replaced by what the handler left
WithState(gs, st) ==
    IF st = PrivateState(gs) THEN gs ELSE [entered |-> gs.entered, state |-> st]

\* lines 74-83: the handler of the cartridge found runs, its answer is fanned
\* out; an exception becomes one error emit to the sender
HandleEvent(game, event_name, data, context) ==
    LET r == game_handle_event(game, event_name, data, PrivateState(gameState[game]),
                               Memory, now)
    IN  /\ Commit(r.out)
        /\ gameState' = [gameState EXCEPT ![game] = WithState(@, r.state)]
        /\ outbox' = IF r.raised
                     THEN << Emit("error", "GAME_ERROR", ErrorRoom(context.session_id),
                                  NoSid) >>
                     ELSE ProcessResponse(r.response, context)
        /\ inflight' = Dispatch(IF r.raised THEN "raised" ELSE "handled", game,
                                event_name, NoData, context, EventResponse,
                                inflight.prev_raised)
        /\ UNCHANGED << current_game_id, games, emitted, returned, entered, entries,
                        threadVars, connVars, timerVars >>

\* the Socket.IO handler of a game event, registered by events.register_events
\* (socketio, session_manager, event_router, game_registry), which is not among
\* the source files: "updated on any activity" is touch_session for the sending
\* connection before the event is routed
Touched(m, sid, t) == touch_session(m, sid, t).mem.sessions

\* an event arrives: the handler above, then handle_event, lines 19-72: the
\* connection thread builds the context and looks the cartridge up; an event the
\* cartridge does not declare is ignored. The time is noted in lastActive.
Receive(event_name, data, sid) ==
    /\ inflight.stage # "found"
    /\ LET game == LookedUp(current_game_id, games, event_name)
       IN  inflight' = Dispatch(IF game = NoGame THEN "dropped" ELSE "found",
                                IF game = NoGame THEN current_game_id ELSE game,
                                event_name, IF game = NoGame THEN NoData ELSE data,
                                EventContext(Memory, sid), EventResponse,
                                inflight.stage = "raised")
    /\ outbox' = << >>
    /\ lastActive' = [lastActive EXCEPT ![sid] = << now >>]
    /\ sessions' = Touched(Memory, sid, now)
    /\ UNCHANGED << teams, join_codes, current_state, state_data, fileVars, now,
                    nextUuid, booted, saveVars, threadVars, current_game_id, games,
                    gameState, emitted, returned, entered, entries, connected,
                    admins, timerVars >>

Lookup ==
    \E event_name \in EventInputs, data \in DataInputs, sid \in Sids :
      Receive(event_name, data, sid)

\* lines 74-83, on the same thread
Handle ==
    /\ inflight.stage = "found"
    /\ HandleEvent(inflight.game, inflight.event_name, inflight.data, inflight.context)

\* lines 79-80 on their own: the answer a handler returned is fanned out
FanOut ==
    /\ inflight.stage = "answered"
    /\ outbox' = ProcessResponse(inflight.response, inflight.context)
    /\ inflight' = [inflight EXCEPT !.stage = "handled"]
    /\ UNCHANGED << registryVars, fileVars, now, nextUuid, booted, saveVars, threadVars,
                    current_game_id, games, gameState, emitted, returned, entered,
                    entries, connVars, timerVars >>

\* a team is registered while the router runs
Register ==
    \E join_code \in UniqueJoinCodes(join_codes) :
      Apply(create_team(Memory, << "A" >>, << "p" >>, "s1", join_code, now))

\* the admin changes the phase
ChangePhase == \E new_state \in PhaseInputs : Transition(new_state, EmptyDict)

NextDispatch == Register \/ ChangePhase \/ Enter \/ Lookup \/ Handle

---------------------------------------------------------------------------
(* Time, the cleanup timer and the connections *)

\* the times at which something happens: the start, a second later, and the same
\* two a TTL later
ClockInputs == { 1, SESSION_TTL_SECONDS, SESSION_TTL_SECONDS + 1 }

\* time.time() moves on
Tick ==
    /\ \E t \in ClockInputs : t > now /\ now' = t
    /\ UNCHANGED << registryVars, fileVars, nextUuid, booted, saveVars, threadVars,
                    routerVars, connVars, timerVars >>

\* the cleanup timer fires: _cleanup_stale_sessions, under the lock
Sweep == Apply(cleanup_stale_sessions(Memory, now))

\* a client presents its stored identity (team 1, player 2) after a reconnect
Rebind == \E sid \in Sids : Apply(reassociate_session(Memory, sid, 1, 2, now))

\* on_connect: the connection is open; the registry is only read
Connect ==
    /\ \E sid \in Sids \ connected : connected' = connected \cup { sid }
    /\ UNCHANGED << registryVars, fileVars, now, nextUuid, booted, saveVars, threadVars,
                    routerVars, lastActive, admins, timerVars >>

\* on_disconnect: the session is looked up for the log line, nothing is written
Disconnect ==
    /\ \E sid \in connected :
         /\ connected' = connected \ { sid }
         /\ admins' = admins \ { sid }
    /\ UNCHANGED << registryVars, fileVars, now, nextUuid, booted, saveVars, threadVars,
                    routerVars, lastActive, timerVars >>

\* an open connection sends an event every cartridge declares
Activity == \E sid \in connected : Receive("music_toggle", NoData, sid)

\* _schedule_cleanup with n Timers waiting: the one self._cleanup_timer refers to
\* is cancelled when it still waits, and a new one is started
Scheduled(n) == (IF n > 0 THEN n - 1 ELSE 0) + 1

\* a sweep that schedules the next one only when it ended without an exception
AfterSweep_OnSuccess(raised, n) == IF raised THEN n ELSE Scheduled(n)

\* "finally: self._schedule_cleanup()", lines 236-238
AfterSweep(raised, n) == Scheduled(n)

\* CLEANUP_INTERVAL_SECONDS have passed: the Timer thread calls
\* _cleanup_stale_sessions
TimerFires ==
    /\ timers > 0
    /\ timers' = timers - 1
    /\ sweeping' = TRUE
    /\ UNCHANGED << registryVars, fileVars, now, nextUuid, booted, saveVars, threadVars,
                    routerVars, connVars >>

\* the ways a sweep ends: "none" without exception, "early" with an exception
\* before a session is deleted, "save" with an exception out of _save_scores
\* (its mkdir, line 145, is outside its try) after the deletions
SweepFaults == { "none", "early", "save" }

\* what the sweep leaves in each case
SweepOutcome(m, t, fault) ==
    LET out == cleanup_stale_sessions(m, t)
    IN  CASE fault = "none" -> out
          [] fault = "early" -> Out(m, out.ret, FALSE)
          [] fault = "save" -> Out(out.mem, out.ret, FALSE)

\* _cleanup_stale_sessions on the Timer thread, lines 208-238: the body under
\* try/except Exception, and the finally clause
SweepRuns ==
    /\ sweeping
    /\ \E fault \in SweepFaults :
         /\ fault = "save" => cleanup_stale_sessions(Memory, now).saved
         /\ Commit(SweepOutcome(Memory, now, fault))
         /\ timers' = AfterSweep(fault # "none", timers)
    /\ sweeping' = FALSE
    /\ UNCHANGED << threadVars, routerVars, connVars >>

NextTimer == Register \/ Rebind \/ Tick \/ TimerFires \/ SweepRuns

\* the registry calls that are made on the team registered first
TouchSession == \E sid \in Sids : Apply(touch_session(Memory, sid, now))

SetAvatar == Apply(set_team_avatar(Memory, 1, 1))

ToggleElimination == \E eliminated \in BOOLEAN : Apply(toggle_elimination(Memory, 1, eliminated))

NextPersist ==
    \/ Register \/ Rebind \/ Tick \/ Sweep \/ TouchSession
    \/ SetAvatar \/ ToggleElimination \/ AddPoints \/ KickTeam \/ ResetGame \/ SetPhase

NextSweep ==
    Register \/ Rebind \/ Connect \/ Disconnect \/ Activity \/ Handle \/ Tick \/ Sweep

---------------------------------------------------------------------------
(* The process after construction on an empty data directory *)

InitRegistry ==
    /\ teams = EmptyDict
    /\ sessions = EmptyDict
    /\ join_codes = EmptyDict
    /\ current_state = DefaultState
    /\ state_data = EmptyDict
    /\ primary = Absent
    /\ bak = Absent
    /\ tmp = Absent
    /\ now = 0
    /\ nextUuid = 0
    /\ booted = "none"

InitThreads ==
    /\ lock = NoThread
    /\ pc = [th \in Threads |-> "idle"]
    /\ call = [th \in Threads |-> NoCall]

InitSave ==
    /\ savePc = "idle"
    /\ saveDoc = Absent
    /\ preSave = Absent

\* app.py 54-66: current_state is "LOBBY", the router is pointed at it and the
\* cartridge, when registered, is entered with state_data
InitPhase(registered) ==
    /\ games = registered
    /\ current_game_id = DefaultState
    /\ gameState = [g \in GameIds |->
                      IF g = DefaultState /\ g \in registered
                      THEN OnEnter(EmptyDict) ELSE NotEntered]
    /\ emitted = NoEmit
    /\ returned = NoReturn
    /\ entered = IF DefaultState \in registered THEN DefaultState ELSE "none"
    /\ entries = [g \in GameIds |-> IF g = DefaultState /\ g \in registered THEN 1 ELSE 0]

InitRouter(registered) ==
    /\ InitPhase(registered)
    /\ outbox = << >>
    /\ inflight = NoDispatch

InitConn ==
    /\ lastActive = [sid \in Sids |-> Never]
    /\ connected = {}
    /\ admins = {}

\* __init__ line 84: the first cleanup Timer is started
InitTimer ==
    /\ timers = 1
    /\ sweeping = FALSE

Init == InitRegistry /\ InitThreads /\ InitSave /\ InitRouter(GameIds) /\ InitConn /\ InitTimer

Next ==
    \/ CreateTeam
    \/ JoinTeam
    \/ ReassociateSession
    \/ AddPoints
    \/ KickTeam
    \/ ResetGame
    \/ SetPhase
    \/ Restart

Spec == Init /\ [][Next]_vars

---------------------------------------------------------------------------
(* Properties of the registry calls *)

LiveCodes == { teams[t].join_code : t \in DOMAIN teams }

\* C1: for valid names and any session, when create_team succeeds, the same call
\* repeated at once from the same session succeeds with the same team_id and
\* player_id, and leaves teams, players, sessions and join codes as they were.
C1_CreateTeamIdempotent ==
    \A tn \in TeamNamesChecked, pn \in PlayerNameInputs, sid \in Sids :
      \A join_code \in UniqueJoinCodes(join_codes) :
        LET first == create_team(Memory, tn, pn, sid, join_code, now)
            second == create_team(first.mem, tn, pn, sid, join_code, now)
        IN  (NameOk(Strip(tn)) /\ NameOk(Strip(pn)) /\ first.ret.success) =>
              /\ second.ret.success
              /\ second.ret.team_id = first.ret.team_id
              /\ second.ret.player_id = first.ret.player_id
              /\ second.mem = first.mem

\* a session has created team "A" as player "p", and the same call from it is
\* answered as a reconnect
C1_Witness ==
    \E sid \in DOMAIN sessions :
      LET out == create_team(Memory, << "A" >>, << "p" >>, sid, CodeNumber(0, CodeLength), now)
      IN  /\ out.ret.message = "Reconnected to existing team"
          /\ teams[out.ret.team_id].name = << "A" >>
          /\ teams[out.ret.team_id].players[out.ret.player_id].name = << "p" >>

\* C2: in every reachable registry state every live team's join code is 4
\* characters of the restricted alphabet, and no two live teams share a code.
C2_JoinCodesWellFormedAndUnique ==
    \A t \in DOMAIN teams :
      /\ Len(teams[t].join_code) = 4
      /\ Range(teams[t].join_code) \subseteq Range(chars)
      /\ \A u \in DOMAIN teams : u # t => teams[u].join_code # teams[t].join_code

\* two teams are live after a restart from the files
C2_Witness == Cardinality(DOMAIN teams) = 2 /\ booted = "main"

\* C3 (as amended): join_team with a code that, trimmed and upper-cased, no live
\* team owns adds no player and no session binding; it fails with "Invalid join
\* code" when the player name is valid and the session is not bound to a live team.
C3_UnownedCodeRejected ==
    \A jc \in JoinCodeInputs, pn \in PlayerNamesChecked, sid \in Sids :
      LET out == join_team(Memory, jc, pn, sid, now)
      IN  Upper(Strip(jc)) \notin LiveCodes =>
            /\ out.mem = Memory
            /\ ~out.saved
            /\ (NameOk(Strip(pn)) /\ ExistingTeam(sessions, teams, sid) = NoId) =>
                 out.ret = Failure("join_team", "Invalid join code")

\* a team is live and a session that is on no team presents a code no team owns
C3_Witness ==
    /\ teams # EmptyDict
    /\ \E sid \in Sids, jc \in JoinCodeInputs :
         /\ ExistingTeam(sessions, teams, sid) = NoId
         /\ Upper(Strip(jc)) \notin LiveCodes
         /\ join_team(Memory, jc, << "p" >>, sid, now).ret.message = "Invalid join code"

\* C3 as stated, read with valid player names: the call fails with the
\* invalid-code result whatever the calling session
C3_AsStated ==
    \A jc \in JoinCodeInputs, pn \in PlayerNamesChecked, sid \in Sids :
      (Upper(Strip(jc)) \notin LiveCodes /\ NameOk(Strip(pn))) =>
        join_team(Memory, jc, pn, sid, now).ret = Failure("join_team", "Invalid join code")

---------------------------------------------------------------------------
(* Concurrent create_team calls *)

NextConc == \E th \in Threads : Validate(th) \/ Acquire(th) \/ Check(th) \/ Create(th)

SpecConc == Init /\ [][NextConc]_vars

Succeeded(th) == pc[th] = "done" /\ call[th].ret.success

\* C4: under any interleaving of create_team calls, no two live teams have the same
\* name up to case, and the successful calls of one session all return the same
\* team_id and player_id: a session's calls leave one team with one player.
C4_CreateTeamAtomic ==
    /\ \A t, u \in DOMAIN teams : t # u => Lower(teams[t].name) # Lower(teams[u].name)
    /\ \A th, other \in Threads :
         (Succeeded(th) /\ Succeeded(other) /\ call[th].sid = call[other].sid) =>
           /\ call[th].ret.team_id = call[other].ret.team_id
           /\ call[th].ret.player_id = call[other].ret.player_id
    /\ \A t \in DOMAIN teams : Cardinality(DOMAIN teams[t].players) = 1
    /\ Cardinality(DOMAIN teams) <= Cardinality({ call[th].sid : th \in Threads })

\* three calls have returned: two of one session, of which one created the team
\* and the other reconnected, and one of another session that lost on the name
C4_Witness ==
    \E th, other, third \in Threads :
      /\ Succeeded(th) /\ Succeeded(other) /\ th # other
      /\ call[th].sid = call[other].sid
      /\ call[th].ret.message = "Team created successfully"
      /\ call[other].ret.message = "Reconnected to existing team"
      /\ pc[third] = "done"
      /\ call[third].sid # call[th].sid
      /\ Lower(call[third].team_name) = Lower(call[th].team_name)
      /\ call[third].ret.message = "Team name already taken"

---------------------------------------------------------------------------
(* Crashes during a save *)

NextCrash ==
    \/ MutatingCall
    \/ Mkstemp
    \/ Dump
    \/ BackupOpen
    \/ BackupCopy
    \/ Replace
    \/ Crash

SpecCrash == Init /\ [][NextCrash]_vars

\* C5: whatever step of a save the process crashes at, the primary file, when it
\* exists, is one complete snapshot (the one on disk when the save began, or the
\* one being saved), and the memory after the restart is that of the pre-save or
\* of the post-save snapshot.
C5_CrashSafeSave ==
    /\ Exists(primary) => Parses(primary)
    /\ primary \in { preSave, json_dump(saveDoc) }
    /\ booted # "none" =>
         /\ booted # "backup"
         /\ Memory \in { LoadScores(preSave, Absent, nextUuid),
                         LoadedFrom(json_dump(saveDoc), nextUuid) }

\* the process crashed while the primary was being copied to the backup and came
\* up with the snapshot of before the save
C5_Witness ==
    /\ booted = "main"
    /\ bak.kind = "truncated"
    /\ Parses(tmp)
    /\ primary = preSave
    /\ primary # json_dump(saveDoc)
    /\ Data(Memory) = preSave.doc

---------------------------------------------------------------------------
(* Saving and loading *)

\* C6: when the primary file is the snapshot of the memory and a fresh
\* SessionManager is constructed on it, the new memory has the same teams,
\* sessions, current_state and state_data, and the same join-code index.
C6_SnapshotRoundTrip ==
    [][ (booted' = "main" /\ primary = json_dump(Data(Memory))) =>
          /\ teams' = teams
          /\ sessions' = sessions
          /\ current_state' = current_state
          /\ state_data' = state_data
          /\ join_codes' = join_codes ]_vars

\* a restart has loaded a snapshot with a team of two players, two sessions and a
\* phase other than the default
C6_Witness ==
    /\ booted = "main"
    /\ primary = json_dump(Data(Memory))
    /\ \E t \in DOMAIN teams : Cardinality(DOMAIN teams[t].players) = 2
    /\ Cardinality(DOMAIN sessions) = 2
    /\ current_state = "TIMER"
    /\ state_data # EmptyDict

\* C7: after a startup that found the primary file truncated, corrupted or missing
\* while the backup is intact, the memory holds the backup's teams, sessions,
\* current_state and state_data, and the primary file equals the backup.
C7_BackupRecoveryAsStated ==
    (booted \notin { "none", "main" } /\ Parses(bak)) =>
      /\ Data(Memory) = bak.doc
      /\ join_codes = RebuildJoinCodes(teams)
      /\ primary = bak

---------------------------------------------------------------------------
(* Phase transitions *)

InitRouters ==
    /\ InitRegistry /\ InitThreads /\ InitSave /\ InitConn /\ InitTimer
    /\ \E registered \in RegistryInputs : InitRouter(registered)

NextRouter == SetState \/ Enter \/ EnterRaises \/ RouterCrash

SpecRouter == InitRouters /\ [][NextRouter]_vars

\* C8: every state_change broadcast carries the id of the cartridge that was
\* entered; for an unregistered id with the lobby registered that is LOBBY.
C8_BroadcastCarriesEntered ==
    emitted.event = "state_change" =>
      /\ emitted.current_state = entered
      /\ emitted.current_state = current_game_id

\* C9: while set_state is about to call on_enter, and after it has returned True,
\* the persisted current_state is the id of the cartridge entered, and a restart
\* from there leaves the router on that cartridge.
C9_PersistedIsEntered ==
    /\ [](returned.value \in { "pending", "True" } =>
            /\ Parses(primary)
            /\ primary.doc.current_state = current_game_id)
    /\ [][ (returned.value \in { "pending", "True" } /\ booted' # "none") =>
              current_game_id' = current_game_id ]_vars

\* C10: a set_state call made when neither the requested id nor LOBBY is
\* registered returns False and leaves the router's current_game_id and the
\* persisted (current_state, state_data) as they were.
C10_AbortKeepsPhase ==
    [][ (/\ returned.value # "pending"
         /\ returned'.value # "none"
         /\ returned' # returned
         /\ returned'.call \notin games
         /\ "LOBBY" \notin games) =>
          /\ returned'.value = "False"
          /\ current_game_id' = current_game_id
          /\ primary' = primary
          /\ current_state' = current_state
          /\ state_data' = state_data ]_vars

\* C11: over any sequence of set_state calls (same cartridge, fallback, on_enter
\* raising), every cartridge's on_enter and on_exit calls alternate, starting with
\* on_enter; the cartridge left has had its on_exit before the next on_enter is
\* called; and after a call that returned True the cartridge the router points at
\* has been entered once since its last on_exit, every other cartridge not at all.
C11_HooksPaired ==
    /\ \A g \in GameIds : entries[g] \in { 0, 1 }
    /\ \A g \in GameIds : entries[g] = 1 => g = current_game_id
    /\ returned.value = "pending" => \A g \in GameIds : entries[g] = 0
    /\ returned.value = "True" =>
         /\ entered = current_game_id
         /\ entries[current_game_id] = 1

\* TIMER was entered and left again, and the call for an unregistered id has then
\* entered the lobby a second time
C11_Witness ==
    /\ returned = [call |-> "BOGUS", value |-> "True"]
    /\ entered = "LOBBY"
    /\ entries["LOBBY"] = 1
    /\ gameState["TIMER"] # NotEntered
    /\ entries["TIMER"] = 0

---------------------------------------------------------------------------
(* Dispatch of events *)

SpecDispatch == Init /\ [][NextDispatch]_vars

\* on_exit of cartridge g has been called and no on_enter of it since
Exited(g) == gameState[g].entered /\ entries[g] = 0

\* C12: the handler of a cartridge never runs once that cartridge's on_exit has
\* been called: whatever the interleaving of handle_event with set_state, when a
\* handler runs its cartridge has not been exited.
C12_NoHandlerAfterExit ==
    [][ (inflight.stage = "found" /\ inflight'.stage \in { "handled", "raised" }) =>
          ~Exited(inflight.game) ]_vars

\* C13: a handle_event call whose event name is in none of the three mappings of
\* the active cartridge ends at the lookup: no cartridge's private state, nothing
\* in the registry and no file changes, and nothing is emitted.
C13_UndeclaredIsNoOp ==
    [][ (/\ inflight.stage # "found"
         /\ inflight' # inflight
         /\ inflight'.event_name \notin
              EVENTS(current_game_id) \cup ADMIN_EVENTS(current_game_id)
                \cup GLOBAL_ADMIN_EVENTS) =>
          /\ inflight'.stage = "dropped"
          /\ gameState' = gameState
          /\ current_game_id' = current_game_id
          /\ Memory' = Memory
          /\ << primary, bak, tmp >>' = << primary, bak, tmp >>
          /\ outbox' = << >> ]_vars

\* with a team registered and MINESWEEPER active after TIMER, a timer_control
\* event arrived and was ignored
C13_Witness ==
    /\ inflight.stage = "dropped"
    /\ inflight.event_name = "timer_control"
    /\ current_game_id = "MINESWEEPER"
    /\ returned.value = "True"
    /\ gameState["TIMER"].entered
    /\ teams # EmptyDict
    /\ outbox = << >>

\* C14: when a handler raises, the router's phase and the cartridges' state are
\* as before, and the only emit is one error to the sender's own room; the call
\* after it is looked up and handled as any other (a music_toggle then gives its
\* one broadcast).
C14_HandlerErrorIsContained ==
    /\ [][ (inflight.stage = "found" /\ inflight'.stage = "raised") =>
             /\ current_game_id' = current_game_id
             /\ gameState' = gameState
             /\ returned' = returned
             /\ entries' = entries
             /\ outbox' = << Emit("error", "GAME_ERROR",
                                  SidRoom(inflight.context.session_id), NoSid) >> ]_vars
    /\ [][ inflight.stage = "raised" =>
             (inflight'.stage \in { "raised", "found", "dropped" }
              /\ (inflight'.stage # "raised" =>
                    /\ inflight'.prev_raised
                    /\ inflight'.stage = "found" <=>
                         (current_game_id \in games
                          /\ inflight'.event_name \in
                               EVENTS(current_game_id) \cup GLOBAL_ADMIN_EVENTS))) ]_vars
    /\ [][ (/\ inflight.stage = "found"
            /\ inflight.prev_raised
            /\ inflight.event_name = "music_toggle"
            /\ inflight' # inflight) =>
             /\ inflight'.stage = "handled"
             /\ outbox' = << Emit("music_toggle", NoError, ToAll, NoSid) >> ]_vars

\* a timer_control with no payload raised, and the timer_control sent next by the
\* other connection has paused the timer
C14_Witness ==
    /\ inflight.prev_raised
    /\ inflight.stage = "handled"
    /\ inflight.event_name = "timer_control"
    /\ inflight.context.session_id = "s2"
    /\ current_game_id = "TIMER"
    /\ gameState["TIMER"].state.paused
    /\ Len(outbox) = 1 /\ outbox[1].event = "timer_sync"

---------------------------------------------------------------------------
(* The fan-out of an answer *)

\* the answers and senders _process_response is run on: every channel empty or
\* holding events; a sender on team 1 or 3, a sender on no team, and no sender
EnvelopeInputs ==
    { [ broadcast |-> b, to_sender |-> s, to_team |-> t, to_team_others |-> o,
        to_admin |-> a, to_specific_team |-> st, error |-> e ] :
        b \in { {}, { "score_update" } },
        s \in { {}, { "vote_confirmed" } },
        t \in { {}, { "score_update", "team_sync" } },
        o \in { {}, { "typing_sync" } },
        a \in { {}, { "guess_received" } },
        st \in { EmptyDict, (1 :> { "buzzer_lockout" }),
                 (1 :> { "eliminated" }) @@ (3 :> { "eliminated" }) },
        e \in { NoError, "NO_TEAM" } }

ContextInputs ==
    { [ session_id |-> sid, team_id |-> team_id, player_id |-> team_id + 1,
        is_admin |-> FALSE ] : sid \in Sids, team_id \in { 1, 3 } }
      \cup { EventContext(FreshMemory(0), sid) : sid \in Sids }
      \cup { NoContext }

\* a handler (or a hook, when there is no sender) has just returned its answer
InitFanOut ==
    /\ InitRegistry /\ InitThreads /\ InitSave /\ InitConn /\ InitTimer /\ InitPhase(GameIds)
    /\ outbox = << >>
    /\ \E response \in EnvelopeInputs, context \in ContextInputs :
         inflight = Dispatch("answered", DefaultState, "", NoData, context, response,
                             FALSE)

SpecFanOut == InitFanOut /\ [][FanOut]_vars

\* the emits of an answer that go to a given room, skipping a given connection
Deliveries(emits, room, skip_sid) ==
    { i \in DOMAIN emits : emits[i].room = room /\ emits[i].skip_sid = skip_sid }

EventsOf(emits, indices) == { emits[i].event : i \in indices }

\* C17: _process_response makes one emit per event of each non-empty channel, to
\* the channel's audience: broadcast to all, to_sender to the sender's sid,
\* to_team to the room of the sender's team, to_team_others to that room skipping
\* the sender, to_admin to the admin room, to_specific_team[t] to the room of team
\* t, and the error to the sender's sid; channels that address the sender or the
\* sender's team emit nothing when there is no sender or the sender has no team.
\* An envelope with only the error set gives exactly that one emit.
C17_FanOut ==
    inflight.stage = "handled" =>
      LET response == inflight.response
          emits == outbox
          sender == inflight.context.session_id
          team == inflight.context.team_id
          specific == response.to_specific_team
          own == IF team \in DOMAIN specific THEN specific[team] ELSE {}
          count(channel) == Cardinality(channel)
      IN  /\ EventsOf(emits, Deliveries(emits, ToAll, NoSid)) = response.broadcast
          /\ EventsOf(emits, Deliveries(emits, AdminRoom, NoSid)) = response.to_admin
          /\ sender # NoSid =>
               EventsOf(emits, Deliveries(emits, SidRoom(sender), NoSid))
                 = response.to_sender
                     \cup (IF response.error # NoError THEN { "error" } ELSE {})
          /\ team # NoId =>
               /\ EventsOf(emits, Deliveries(emits, TeamRoom(team), NoSid))
                    = response.to_team \cup own
               /\ EventsOf(emits, Deliveries(emits, TeamRoom(team), sender))
                    = response.to_team_others
          /\ \A t \in DOMAIN specific : t # team =>
               EventsOf(emits, Deliveries(emits, TeamRoom(t), NoSid)) = specific[t]
          /\ Len(emits) =
               count(response.broadcast) + count(response.to_admin)
                 + (IF sender # NoSid
                    THEN count(response.to_sender)
                           + (IF response.error # NoError THEN 1 ELSE 0)
                    ELSE 0)
                 + (IF team # NoId
                    THEN count(response.to_team) + count(response.to_team_others)
                    ELSE 0)
                 + (IF 1 \in DOMAIN specific THEN count(specific[1]) ELSE 0)
                 + (IF 3 \in DOMAIN specific THEN count(specific[3]) ELSE 0)
          /\ (response = [EventResponse EXCEPT !.error = "NO_TEAM"] /\ sender # NoSid) =>
               emits = << Emit("error", "NO_TEAM", SidRoom(sender), NoSid) >>

\* an answer with every channel set, from a sender on team 1, has been fanned out:
\* among its emits, the one to the sender's team-mates skips the sender
C17_Witness ==
    /\ inflight.stage = "handled"
    /\ inflight.context = [ session_id |-> "s1", team_id |-> 1, player_id |-> 2,
                            is_admin |-> FALSE ]
    /\ inflight.response.error = "NO_TEAM"
    /\ DOMAIN inflight.response.to_specific_team = { 1, 3 }
    /\ Len(outbox) = 9
    /\ \E i \in DOMAIN outbox :
         outbox[i] = Emit("typing_sync", NoError, TeamRoom(1), "s1")

\* C17 as stated, for the envelopes of on_enter and on_exit (fanned out with no
\* sender): every event of a channel that addresses the sender or the sender's
\* team is delivered, and an envelope with only the error set gives one emit
C17_HookEnvelopeDelivered ==
    (inflight.stage = "handled" /\ inflight.context = NoContext) =>
      /\ \A event \in inflight.response.to_sender \cup inflight.response.to_team
                        \cup inflight.response.to_team_others :
           \E i \in DOMAIN outbox : outbox[i].event = event
      /\ inflight.response = [EventResponse EXCEPT !.error = "NO_TEAM"] =>
           Len(outbox) = 1

---------------------------------------------------------------------------
(* Removing a team *)

SessionsOf(ss, team_id) == { sid \in DOMAIN ss : ss[sid].team_id = team_id }

\* C15: kick_team of a live team, whatever the sessions bound to it, returns
\* True; afterwards the team's join code is out of the index and is one a later
\* create_team can draw, no session has the team's id, and every other team,
\* join code and session is as before.
C15_KickTeamFreesCodeAndSessions ==
    \A team_id \in DOMAIN teams :
      LET out == kick_team(Memory, team_id)
          code == teams[team_id].join_code
          others == DOMAIN teams \ { team_id }
          kept == DOMAIN sessions \ SessionsOf(sessions, team_id)
      IN  /\ out.ret.success
          /\ code \notin DOMAIN out.mem.join_codes
          /\ code \in UniqueJoinCodes(out.mem.join_codes)
          /\ LET again == create_team(out.mem, << "N" >>, << "p" >>, "s3", code, now)
              IN  again.ret.success /\ again.mem.join_codes[code] = again.ret.team_id
          /\ SessionsOf(out.mem.sessions, team_id) = {}
          /\ DOMAIN out.mem.teams = others
          /\ \A u \in others : out.mem.teams[u] = teams[u]
          /\ DOMAIN out.mem.sessions = kept
          /\ \A sid \in kept : out.mem.sessions[sid] = sessions[sid]
          /\ DOMAIN out.mem.join_codes = DOMAIN join_codes \ { code }
          /\ \A c \in DOMAIN out.mem.join_codes : out.mem.join_codes[c] = join_codes[c]

\* a team with two sessions bound to it is live beside another team, and is
\* kicked: both sessions go and the other team stays
C15_Witness ==
    \E team_id \in DOMAIN teams :
      /\ Cardinality(SessionsOf(sessions, team_id)) = 2
      /\ Cardinality(DOMAIN teams) = 2
      /\ kick_team(Memory, team_id).mem.sessions = EmptyDict
      /\ Cardinality(DOMAIN kick_team(Memory, team_id).mem.teams) = 1

---------------------------------------------------------------------------
(* join_team from a session that is already on a team *)

\* C16 as stated: join_team from a session bound to a live team, whatever the
\* join code and the player name, answers with the reconnect success carrying the
\* bound team_id and player_id, and changes nothing.
C16_BoundSessionJoinIsIdempotent ==
    \A jc \in JoinCodeInputs, pn \in PlayerNamesChecked, sid \in Sids :
      LET out == join_team(Memory, jc, pn, sid, now)
          bound == sid \in DOMAIN sessions /\ sessions[sid].team_id \in DOMAIN teams
          existing == sessions[sid].team_id
      IN  bound =>
            /\ out.ret = Ret("join_team", TRUE, existing, sessions[sid].player_id,
                             "Reconnected to existing team")
            /\ out.mem = Memory

\* C16 (as amended): join_team with a player name of 1 to 20 characters after
\* trimming, from a session bound to a live team, whatever the join code, answers
\* with the reconnect success carrying the bound team_id and player_id, and adds
\* no player and changes nothing else.
C16_ValidNameBoundSessionJoin ==
    \A jc \in JoinCodeInputs, pn \in PlayerNamesChecked, sid \in Sids :
      LET out == join_team(Memory, jc, pn, sid, now)
          bound == sid \in DOMAIN sessions /\ sessions[sid].team_id \in DOMAIN teams
          existing == sessions[sid].team_id
      IN  (bound /\ NameOk(Strip(pn))) =>
            /\ out.ret = Ret("join_team", TRUE, existing, sessions[sid].player_id,
                             "Reconnected to existing team")
            /\ out.mem = Memory

\* a session on one team joins with the code of another team and a name that is
\* free there, and with a code no team owns: both are answered as a reconnect
C16_Witness ==
    \E sid \in DOMAIN sessions, other \in DOMAIN teams :
      /\ sessions[sid].team_id \in DOMAIN teams \ { other }
      /\ ~PlayerNameTaken(teams[other], << "Q" >>)
      /\ join_team(Memory, teams[other].join_code, << "Q", " " >>, sid, now).ret.team_id
           = sessions[sid].team_id
      /\ \E jc \in JoinCodeInputs :
           /\ Upper(Strip(jc)) \notin LiveCodes
           /\ join_team(Memory, jc, << "Q", " " >>, sid, now).ret.message
                = "Reconnected to existing team"

---------------------------------------------------------------------------
(* Sessions, their last_seen and the sweep *)

SpecSweep == Init /\ [][NextSweep]_vars

\* the sessions a step removes
Removed == DOMAIN sessions \ DOMAIN sessions'

\* the connection whose event a step takes in, or NoSid
Sender == IF inflight' # inflight /\ inflight'.stage \in { "found", "dropped" }
          THEN inflight'.context.session_id ELSE NoSid

\* the step sets the last_seen of the sender's session to the time of the event
SenderSeen ==
    LET after == sessions'
    IN  Sender \in DOMAIN sessions =>
          /\ Sender \in DOMAIN after
          /\ after[Sender].last_seen = now
          /\ lastActive'[Sender] = << now >>

\* the step removes no session whose connection sent an event within the TTL
RemovedWereIdle ==
    \A sid \in Removed :
      lastActive[sid] = Never \/ now - lastActive[sid][1] > SESSION_TTL_SECONDS

Expired(ss, t) == { sid \in DOMAIN ss : t - ss[sid].last_seen > SESSION_TTL_SECONDS }

\* what _cleanup_stale_sessions gives at this time: exactly the expired sessions
\* are gone, the others are as they were, and so is the rest of the registry
SweepIsExact ==
    LET out == cleanup_stale_sessions(Memory, now)
    IN  /\ DOMAIN out.mem.sessions = DOMAIN sessions \ Expired(sessions, now)
        /\ \A sid \in DOMAIN out.mem.sessions : out.mem.sessions[sid] = sessions[sid]
        /\ out.mem.teams = teams
        /\ out.mem.join_codes = join_codes
        /\ out.mem.current_state = current_state
        /\ out.mem.state_data = state_data
        /\ out.saved <=> Expired(sessions, now) # {}

\* a step that removes sessions removes the expired ones and nothing else
SweepStepIsExact ==
    Removed # {} =>
      /\ Removed = Expired(sessions, now)
      /\ \A sid \in DOMAIN sessions \ Removed : sid \in DOMAIN sessions'
      /\ UNCHANGED << teams, join_codes, current_state, state_data, current_game_id,
                      gameState, nextUuid >>

\* C20: a run of _cleanup_stale_sessions removes exactly the sessions whose
\* last_seen is more than SESSION_TTL_SECONDS before the time of the run, keeps
\* every other session as it is, and leaves teams, players, scores, join codes and
\* the phase unchanged.
C20_SweepRemovesExactlyStale == [](SweepIsExact) /\ [][SweepStepIsExact]_vars

\* a sweep at SESSION_TTL_SECONDS + 1 has removed the session last seen at 0 and
\* kept the one last seen at 1, exactly SESSION_TTL_SECONDS before, with its team
C20_Witness ==
    /\ now = SESSION_TTL_SECONDS + 1
    /\ DOMAIN sessions = { "s2" }
    /\ sessions["s2"].last_seen = 1
    /\ sessions["s2"].team_id \in DOMAIN teams
    /\ bak.kind = "json" /\ DOMAIN bak.doc.sessions = { "s1", "s2" }
    /\ bak.doc.sessions["s1"].last_seen = 0
    /\ primary.kind = "json" /\ primary.doc.sessions = sessions
    /\ primary.doc.teams = bak.doc.teams

---------------------------------------------------------------------------
(* What may take a team or a player away *)

\* every team of before is in after, with at least the players it had
RosterKept(before, after) ==
    \A t \in DOMAIN before :
      /\ t \in DOMAIN after
      /\ \A p \in DOMAIN before[t].players :
           p \in DOMAIN after[t].players /\ after[t].players[p] = before[t].players[p]

\* the registry calls other than kick_team and reset_game(False), and the handlers
\* of the cartridges, tried on the present memory
KeepingCalls ==
    { cleanup_stale_sessions(Memory, t) : t \in ClockInputs }
      \cup { reassociate_session(Memory, sid, id[1], id[2], now) :
               sid \in Sids, id \in IdentityInputs }
      \cup { add_points(Memory, team_id, n) : team_id \in Uuids, n \in PointInputs }
      \cup { set_team_avatar(Memory, team_id, a) : team_id \in Uuids, a \in { 1, 2 } }
      \cup { toggle_elimination(Memory, team_id, e) : team_id \in Uuids, e \in BOOLEAN }
      \cup { store_state(Memory, g, sd) : g \in StateInputs, sd \in StateDataInputs }
      \cup { reset_game(Memory, TRUE) }
      \cup { touch_session(Memory, sid, now) : sid \in Sids }
      \cup { game_handle_event(g, e, d, PrivateState(gameState[g]), Memory, now).out :
               g \in GameIds, e \in EventInputs, d \in DataInputs }

\* C19: no team and no player of a team is removed by a disconnect, by the sweep,
\* by reassociate_session, add_points, set_team_avatar, toggle_elimination,
\* set_state or the dispatch of an event: each of these calls leaves every team
\* with its roster, and so does every step of the connections, the clock, the
\* sweep and the router.
C19_RostersShrinkOnlyByRemoval ==
    /\ [](\A out \in KeepingCalls : RosterKept(teams, out.mem.teams))
    /\ [][RosterKept(teams, teams')]_vars

\* the team's only sessions were swept a TTL after they were made (the backup file
\* still has them) and both connections are closed after sending events: the team
\* and its player are still there
C19_Witness ==
    /\ sessions = EmptyDict
    /\ connected = {}
    /\ \A sid \in Sids : lastActive[sid] = << 0 >>
    /\ bak.kind = "json" /\ DOMAIN bak.doc.sessions = Sids
    /\ \E t \in DOMAIN teams : DOMAIN teams[t].players # {}
    /\ toggle_elimination(Memory, 1, TRUE).mem.teams[1].players = teams[1].players

---------------------------------------------------------------------------
(* The cleanup timer *)

\* the Timer thread is scheduled and a started Timer fires after its interval
SpecTimer == Init /\ [][NextTimer]_vars /\ WF_vars(TimerFires) /\ WF_vars(SweepRuns)

\* C21: at every moment after startup exactly one sweep is outstanding, as a
\* waiting Timer or as the sweep that is running and schedules the next in its
\* finally clause, whether it ended normally or with an exception; so the sweep
\* runs again and again.
C21_SweepAlwaysRescheduled ==
    /\ [](timers + (IF sweeping THEN 1 ELSE 0) = 1)
    /\ []<>sweeping
    /\ []<>(~sweeping /\ timers = 1)

\* a sweep is running a TTL after a session was made: the session is expired and
\* the sweep will write the files, or fail doing so
C21_Witness ==
    /\ sweeping
    /\ timers = 0
    /\ cleanup_stale_sessions(Memory, now).saved

---------------------------------------------------------------------------
(* The files after a call *)

SpecPersist == Init /\ [][NextPersist]_vars

\* C22 as stated: once a mutating call has completed, the primary file holds the
\* snapshot {teams, sessions, current_state, state_data} of the memory
C22_PrimaryIsSnapshot ==
    Exists(primary) => primary = json_dump(Data(Memory))

\* a snapshot with the last_seen of every session left out
Unseen(doc) ==
    [ doc EXCEPT !.sessions =
        [ sid \in DOMAIN @ |-> [ team_id |-> @[sid].team_id, player_id |-> @[sid].player_id ] ] ]

\* the same up to last_seen, which touch_session moves without a save
PrimaryIsSnapshotButLastSeen ==
    Exists(primary) => /\ Parses(primary)
                       /\ Unseen(primary.doc) = Unseen(Data(Memory))

\* the mutating calls tried on the present memory, each of which saves
SavingCalls ==
    { o \in { create_team(Memory, << "N" >>, << "p" >>, "s3", CodeNumber(0, CodeLength), now),
               add_points(Memory, 1, 1),
               kick_team(Memory, 1),
               toggle_elimination(Memory, 1, TRUE),
               set_team_avatar(Memory, 1, 2),
               reassociate_session(Memory, "s2", 1, 2, now),
               reset_game(Memory, FALSE),
               store_state(Memory, "TIMER", EmptyDict) } : o.saved }

\* C23 as stated: whatever step of the save fails, the call has applied its
\* change to the memory and returns its normal result
C23_SaveFaultIsContained ==
    \A out \in SavingCalls, step \in SaveFaults :
      LET faulted == CallWithFault(out, primary, bak, tmp, step)
      IN  faulted.mem = out.mem /\ faulted.ret = out.ret

\* the same for the steps after the directory creation
SaveFaultAfterMkdirIsContained ==
    \A out \in SavingCalls, step \in SaveFaults \ { "mkdir" } :
      LET faulted == CallWithFault(out, primary, bak, tmp, step)
      IN  faulted.mem = out.mem /\ faulted.ret = out.ret

---------------------------------------------------------------------------
(* Calls that fail *)

\* a failed call has changed nothing and written nothing, and its answer names
\* no team
LeftAlone(out) ==
    /\ out.mem = Memory
    /\ ~out.saved
    /\ out.ret.team_id = NoId /\ out.ret.player_id = NoId

Unbound(sid) == sid \notin DOMAIN sessions \/ sessions[sid].team_id \notin DOMAIN teams

\* C24: create_team and join_team with a name of trimmed length 0 or above 20,
\* create_team with a team name in use (ignoring case), join_team with a code no
\* team owns or a player name in use on the team, and reassociate_session,
\* add_points, kick_team, set_team_avatar and toggle_elimination on a team or
\* player that does not exist, return a failure (a dict with success False and a
\* message, or False) and leave teams, sessions, join codes and the files as they
\* were; no call gives a failure after changing something.
C24_FailuresChangeNothing ==
    /\ \A tn \in TeamNamesChecked, pn \in PlayerNamesChecked, sid \in Sids :
         LET out == create_team(Memory, tn, pn, sid, CodeNumber(MaxCodes, CodeLength), now)
             team_name == Strip(tn)
             bad == Len(team_name) = 0 \/ Len(team_name) > 20
                      \/ Len(Strip(pn)) = 0 \/ Len(Strip(pn)) > 20
             taken == \E t \in DOMAIN teams : Lower(teams[t].name) = Lower(team_name)
         IN  /\ bad => ~out.ret.success /\ out.ret.message # ""
             /\ (~bad /\ Unbound(sid) /\ taken) =>
                  out.ret = Failure("create_team", "Team name already taken")
             /\ ~out.ret.success => LeftAlone(out)
    /\ \A jc \in JoinCodeInputs, pn \in PlayerNamesChecked, sid \in Sids :
         LET out == join_team(Memory, jc, pn, sid, now)
             code == Upper(Strip(jc))
             bad == Len(Strip(pn)) = 0 \/ Len(Strip(pn)) > 20
             owner == IF code \in DOMAIN join_codes THEN join_codes[code] ELSE NoId
         IN  /\ bad => ~out.ret.success /\ out.ret.message # ""
             /\ (~bad /\ Unbound(sid) /\ owner = NoId) =>
                  out.ret = Failure("join_team", "Invalid join code")
             /\ (~bad /\ Unbound(sid) /\ owner # NoId
                   /\ \E p \in DOMAIN teams[owner].players :
                        Lower(teams[owner].players[p].name) = Lower(Strip(pn))) =>
                  out.ret = Failure("join_team", "Player name already taken on this team")
             /\ ~out.ret.success => LeftAlone(out)
    /\ \A sid \in Sids, team_id \in Uuids, player_id \in Uuids :
         LET out == reassociate_session(Memory, sid, team_id, player_id, now)
         IN  (team_id \notin DOMAIN teams \/ player_id \notin DOMAIN teams[team_id].players)
               => ~out.ret.success /\ LeftAlone(out)
    /\ \A team_id \in Uuids \ DOMAIN teams :
         \A out \in { add_points(Memory, team_id, 1), kick_team(Memory, team_id),
                      set_team_avatar(Memory, team_id, 1),
                      toggle_elimination(Memory, team_id, TRUE) } :
           ~out.ret.success /\ LeftAlone(out)

\* a team is live with a player; a session on no team asks for the team's name in
\* another case, and joins with the name of its player in another case: both fail
C24_Witness ==
    \E sid \in Sids, t \in DOMAIN teams :
      /\ Unbound(sid)
      /\ teams[t].name = << "A" >>
      /\ create_team(Memory, << "a" >>, << "p" >>, sid, CodeNumber(MaxCodes, CodeLength),
                     now).ret.message = "Team name already taken"
      /\ join_team(Memory, teams[t].join_code, << "P" >>, sid, now).ret.message
           = "Player name already taken on this team"
      /\ ~kick_team(Memory, MaxUuid).ret.success

---------------------------------------------------------------------------
(* Scores *)

\* the amounts add_points is examined with
AmountsChecked == { -5, -2, -1, 0, 1, 2, 5 }

\* C25: for every live team and every integer N, add_points(t, N) followed by
\* add_points(t, -N) leaves the score of t as it was, also when it is negative in
\* between, and leaves every other team, and the rest of the registry, untouched.
C25_AddPointsRoundTrip ==
    \A t \in DOMAIN teams, N \in AmountsChecked :
      LET up == add_points(Memory, t, N)
          down == add_points(up.mem, t, -N)
      IN  /\ up.ret.success /\ down.ret.success
          /\ up.mem.teams[t].score = teams[t].score + N
          /\ down.mem.teams[t].score = teams[t].score
          /\ \A u \in DOMAIN teams \ { t } :
               up.mem.teams[u] = teams[u] /\ down.mem.teams[u] = teams[u]
          /\ down.mem = Memory

\* two teams are live, one with a point; taking 5 from it leaves it at -4, and
\* giving 5 back leaves it at 1
C25_Witness ==
    \E t \in DOMAIN teams :
      /\ Cardinality(DOMAIN teams) = 2
      /\ teams[t].score = 1
      /\ add_points(Memory, t, -5).mem.teams[t].score = -4
      /\ add_points(add_points(Memory, t, -5).mem, t, 5).mem.teams[t].score = 1

---------------------------------------------------------------------------
(* reset_game *)

\* the fields of a team record that reset_game(True) assigns
ResetFields == { "score", "status", "eliminated" }

\* C26: reset_game(True) sets every team's score to 0 and its status to active
\* and not eliminated, and keeps the set of teams, every other field of every
\* team (name, players, join code, color), the join-code index and the sessions;
\* reset_game(False) empties teams, sessions and the join-code index.
C26_ResetGameFrame ==
    LET kept == reset_game(Memory, TRUE).mem
        wiped == reset_game(Memory, FALSE).mem
    IN  /\ DOMAIN kept.teams = DOMAIN teams
        /\ \A t \in DOMAIN teams :
             /\ kept.teams[t].score = 0
             /\ kept.teams[t].status = "active"
             /\ kept.teams[t].eliminated = FALSE
             /\ DOMAIN kept.teams[t] = DOMAIN teams[t]
             /\ \A f \in DOMAIN teams[t] \ ResetFields : kept.teams[t][f] = teams[t][f]
        /\ kept.sessions = sessions
        /\ kept.join_codes = join_codes
        /\ wiped.teams = EmptyDict
        /\ wiped.sessions = EmptyDict
        /\ wiped.join_codes = EmptyDict

\* a team with points that is eliminated, its player connected: the reset that
\* keeps the teams changes the team and leaves the connection, the other one
\* removes both
C26_Witness ==
    \E t \in DOMAIN teams :
      /\ teams[t].score > 0
      /\ teams[t].eliminated
      /\ \E sid \in DOMAIN sessions : sessions[sid].team_id = t
      /\ reset_game(Memory, TRUE).mem.teams[t] # teams[t]
      /\ reset_game(Memory, TRUE).mem.sessions # EmptyDict
      /\ reset_game(Memory, FALSE).mem.teams = EmptyDict

---------------------------------------------------------------------------
(* The cartridges with answers: Timeline, Price Guess, Pixel Perfect, Picture Guess *)

SecretGameIds == { "TIMELINE", "PRICEGUESS", "PIXELPERFECT", "PICTUREGUESS" }
QuizIds == SecretGameIds \cup { DefaultState }

\* the fields of each cartridge's state that players must not see
SecretFields(g) ==
    CASE g = "TIMELINE" -> { "correct_order", "winners", "submissions" }
      [] g = "PRICEGUESS" -> { "actual_price", "guesses" }
      [] g = "PIXELPERFECT" -> { "correct_answer" }
      [] g = "PICTUREGUESS" -> { "answers" }
      [] OTHER -> {}

\* item texts, as strings of characters

ItemsDated == << << "a", " ", "(", "1", ")" >>, << "b" >> >>
ItemsPlain == << << "(", "x", ")", " ", "c" >> >>

\* the state_data the admin enters each cartridge with
QuizStateData(g) ==
    CASE g = "TIMELINE" ->
           { EmptyDict } \cup
           { [ puzzle_id |-> << 1 >>, items |-> its, correct_order |-> co ] :
               its \in { ItemsDated, ItemsPlain }, co \in { << 1, 2 >>, << 2, 1 >> } }
      [] g = "PRICEGUESS" ->
           { EmptyDict } \cup
           { [ product_id |-> << 1 >>, image_url |-> << "u" >>, hint |-> << "h" >>,
               actual_price |-> << p >> ] : p \in { 10, 20 } }
      [] g = "PIXELPERFECT" ->
           { EmptyDict } \cup
           { [ round_id |-> << 1 >>, image_url |-> "u", correct_answer |-> a ] :
               a \in { "cat", "dog" } }
      [] g = "PICTUREGUESS" ->
           { EmptyDict, [ picture_id |-> << 1 >>, image_url |-> << "u" >>,
                          hint |-> << "h" >> ] }
      [] OTHER -> { EmptyDict }

InitQuiz ==
    /\ InitRegistry /\ InitThreads /\ InitSave /\ InitConn /\ InitTimer
    /\ games = QuizIds
    /\ current_game_id = DefaultState
    /\ gameState = [ g \in QuizIds |->
                       IF g = DefaultState THEN OnEnter(EmptyDict) ELSE NotEntered ]
    /\ emitted = NoEmit
    /\ returned = NoReturn
    /\ entered = DefaultState
    /\ entries = [ g \in QuizIds |-> IF g = DefaultState THEN 1 ELSE 0 ]
    /\ outbox = << >>
    /\ inflight = NoDispatch

\* the admin starts one of the four cartridges
SetQuizState ==
    \E new_state \in SecretGameIds :
      \E sd \in QuizStateData(new_state) : Transition(new_state, sd)

NextQuiz == Register \/ SetQuizState \/ Enter

SpecQuiz == InitQuiz /\ [][NextQuiz]_vars

\* what set_state sends when on_enter has returned: the sanitized state of the
\* cartridge entered, without its secret fields, and the same whatever the
\* secret fields of the state_data are
BroadcastIsSanitized ==
    (returned.value = "pending" /\ returned'.value = "True") =>
      LET g == current_game_id
      IN  /\ emitted'.event = "state_change"
          /\ emitted'.state_data = get_sanitized_state_data(g, gameState'[g])
          /\ DOMAIN emitted'.state_data \cap SecretFields(g) = {}
          /\ \A sd \in QuizStateData(g) :
               WithoutKeys(sd, SecretFields(g)) = WithoutKeys(state_data, SecretFields(g))
                 => emitted'.state_data = get_sanitized_state_data(g, on_enter(g, sd))

\* C27: every state_change broadcast carries the sanitized state of the cartridge
\* entered and none of its secret fields (Timeline correct_order, winners,
\* submissions; Price Guess actual_price, guesses; Pixel Perfect correct_answer;
\* Picture Guess answers), and is the same for two transitions whose state_data
\* differ in secret fields only.
C27_BroadcastHidesSecrets == [][BroadcastIsSanitized]_vars

\* Timeline was entered with an order and dated items while a team is live: the
\* broadcast has the items without their dates, the team's status, and no order
C27_Witness ==
    /\ emitted.event = "state_change"
    /\ returned.value = "True"
    /\ entered = "TIMELINE"
    /\ "correct_order" \in DOMAIN state_data
    /\ gameState["TIMELINE"].state.correct_order = << 2, 1 >>
    /\ teams # EmptyDict
    /\ emitted.state_data.items = << << "a" >>, << "b" >> >>
    /\ DOMAIN emitted.state_data = { "puzzle_id", "statuses", "items" }

---------------------------------------------------------------------------
(* A round of Survival Mode *)

MaxReveals == 1       \* reveals that pay a team in one run

\* two teams have formed, one of three players and one of two
Party ==
    LET first == CodeNumber(0, CodeLength)
        second == CodeNumber(1, CodeLength)
        m0 == Mem(EmptyDict, EmptyDict, EmptyDict, DefaultState, EmptyDict, 0)
        m1 == create_team(m0, << "A" >>, << "p" >>, "s1", first, 0).mem
        m2 == join_team(m1, first, << "q" >>, "s2", 0).mem
        m3 == join_team(m2, first, << "r" >>, "s3", 0).mem
        m4 == create_team(m3, << "B" >>, << "p" >>, "s4", second, 0).mem
    IN  join_team(m4, second, << "q" >>, "s5", 0).mem

\* and the admin has started the round
PartyMemory == store_state(Party, "SURVIVAL", EmptyDict).mem

SurvivalIds == { DefaultState, "SURVIVAL" }

InitSurvival ==
    /\ InitThreads /\ InitSave /\ InitConn /\ InitTimer
    /\ teams = PartyMemory.teams
    /\ sessions = PartyMemory.sessions
    /\ join_codes = PartyMemory.join_codes
    /\ current_state = PartyMemory.current_state
    /\ state_data = PartyMemory.state_data
    /\ nextUuid = PartyMemory.uuid
    /\ primary = json_dump(Data(PartyMemory))
    /\ bak = json_dump(Data(Party))
    /\ tmp = Absent
    /\ now = 0
    /\ booted = "none"
    /\ games = SurvivalIds
    /\ current_game_id = "SURVIVAL"
    /\ gameState = [ g \in SurvivalIds |-> on_enter(g, EmptyDict) ]
    /\ emitted = [ event |-> "state_change", current_state |-> "SURVIVAL",
                   state_data |->
                     get_sanitized_state_data("SURVIVAL", on_enter("SURVIVAL", EmptyDict)) ]
    /\ returned = [ call |-> "SURVIVAL", value |-> "True" ]
    /\ entered = "SURVIVAL"
    /\ entries = [ g \in SurvivalIds |-> IF g = "SURVIVAL" THEN 1 ELSE 0 ]
    /\ outbox = << >>
    /\ inflight = NoDispatch

\* event_router.py 74-83 for a handler that got the context: what it left is
\* kept and its answer is fanned out
Answered(game, r, context) ==
    /\ Commit(r.out)
    /\ gameState' = [gameState EXCEPT ![game] = WithState(@, r.state)]
    /\ outbox' = IF r.raised
                 THEN << Emit("error", "GAME_ERROR", ErrorRoom(context.session_id), NoSid) >>
                 ELSE ProcessResponse(r.response, context)
    /\ UNCHANGED << current_game_id, games, emitted, returned, entered, entries, inflight,
                    threadVars, connVars, timerVars >>

\* the connections that send: the five players', and one that joined no team
Voters == DOMAIN sessions \cup { "s9" }

\* a player sends survival_vote
Vote ==
    \E sid \in Voters, vote \in { "A", "B", "C" } :
      Answered("SURVIVAL",
               handle_vote([vote |-> vote], EventContext(Memory, sid),
                           PrivateState(gameState["SURVIVAL"]), Memory),
               EventContext(Memory, sid))

\* the admin sends survival_reveal
Reveal ==
    /\ \A t \in DOMAIN teams : teams[t].score < MaxReveals * POINTS_FOR_MAJORITY
    /\ Answered("SURVIVAL",
                handle_reveal(PrivateState(gameState["SURVIVAL"]), Memory),
                EventContext(Memory, "s9"))

\* the admin sends survival_reset_round
ResetRound ==
    \E data \in { EmptyDict, [question_text |-> "q"] } :
      Answered("SURVIVAL",
               handle_reset_round(data, PrivateState(gameState["SURVIVAL"]), Memory),
               EventContext(Memory, "s9"))

NextSurvival == Vote \/ Reveal \/ ResetRound

SpecSurvival == InitSurvival /\ [][NextSurvival]_vars

\* the votes cast in the round
Votes == PrivateState(gameState["SURVIVAL"]).player_votes

\* how many players of team t voted v, and how many players did
TeamCount(t, v) ==
    Cardinality({ p \in DOMAIN teams[t].players : p \in DOMAIN Votes /\ Votes[p] = v })
AllCount(v) == Cardinality({ p \in DOMAIN Votes : Votes[p] = v })

\* more of team t's players voted for the option most players voted for
WithPlurality(t) ==
    \/ AllCount("A") > AllCount("B") /\ TeamCount(t, "A") > TeamCount(t, "B")
    \/ AllCount("B") > AllCount("A") /\ TeamCount(t, "B") > TeamCount(t, "A")

\* a step that sends survival_reveal
RevealPaysAligned ==
    (outbox' # << >> /\ outbox'[1].event = "survival_reveal") =>
      /\ DOMAIN teams' = DOMAIN teams
      /\ \A t \in DOMAIN teams :
           /\ teams'[t].score # teams[t].score =>
                WithPlurality(t) /\ teams'[t].score = teams[t].score + POINTS_FOR_MAJORITY
           /\ TeamCount(t, "A") = TeamCount(t, "B") => teams'[t] = teams[t]
      /\ AllCount("A") = AllCount("B") => teams' = teams

\* C28: survival_reveal gives points only to the teams more of whose players
\* voted for the option that most players voted for; with as many votes for A as
\* for B nobody gets points, and a team whose own votes are tied, or that did not
\* vote, gets none.
C28_RevealPaysAligned == [][RevealPaysAligned]_vars

\* a reveal was just sent; the team of three voted A, A, B and has its points,
\* the team of two voted A and B and has none
C28_Witness ==
    /\ outbox # << >> /\ outbox[1].event = "survival_reveal"
    /\ \E t, u \in DOMAIN teams :
         /\ TeamCount(t, "A") = 2 /\ TeamCount(t, "B") = 1
         /\ TeamCount(u, "A") = 1 /\ TeamCount(u, "B") = 1
         /\ teams[t].score = POINTS_FOR_MAJORITY
         /\ teams[u].score = 0

---------------------------------------------------------------------------
(* Team names *)

\* create_team calls that overlap, next to calls of create_team (with the longest
\* name allowed and one longer), kick_team and reset_game that run from start to
\* end while no other call holds the lock
LongNames == { Repeat("B", NameLimit), Repeat("x", NameLimit + 1) }

CreateLongNamed ==
    \E tn \in LongNames :
      Apply(create_team(Memory, tn, << "p" >>, "s2",
                        CHOOSE c \in UniqueJoinCodes(join_codes) : TRUE, now))

NextNames ==
    \/ NextConc
    \/ lock = NoThread /\ CreateLongNamed
    \/ lock = NoThread /\ KickTeam
    \/ lock = NoThread /\ ResetGame

SpecNames == Init /\ [][NextNames]_vars

\* C29: at every moment no two live teams have names that are equal ignoring
\* case, and every live team's name is stored trimmed with 1 to 20 characters;
\* through create_team, kick_team followed by a new create_team, reset_game, and
\* create_team calls that overlap.
C29_TeamNamesUniqueAndBounded ==
    /\ \A t, u \in DOMAIN teams : Lower(teams[t].name) = Lower(teams[u].name) => t = u
    /\ \A t \in DOMAIN teams :
         /\ teams[t].name = Strip(teams[t].name)
         /\ Len(teams[t].name) \in 1..NameLimit

\* a thread's call made team "A"; that team was kicked (or the game reset), and
\* the call of another thread, for " a", then made team "a"
C29_Witness ==
    \E th, other \in Threads :
      /\ Succeeded(th) /\ Succeeded(other)
      /\ call[th].team_name = << "A" >>
      /\ call[th].ret.team_id \notin DOMAIN teams
      /\ call[other].team_name = << "a" >>
      /\ call[other].ret.team_id \in DOMAIN teams
      /\ teams[call[other].ret.team_id].name = << "a" >>

---------------------------------------------------------------------------
(* The router's active cartridge *)

\* C30: at every moment the router's current_game_id is None or the id of a
\* registered cartridge, also after a set_state that failed or fell back and
\* after the restore of the persisted current_state at startup. Stated for the
\* registries that hold the lobby, as the application's does.
C30_ActiveIsRegistered ==
    "LOBBY" \in games => (current_game_id = NoGame \/ current_game_id \in games)

\* what holds: with the lobby registered, the active id is a registered one
\* unless it is an unregistered id that a startup took from the persisted state
ActiveIsRegisteredOrRestored ==
    "LOBBY" \in games =>
      \/ current_game_id \in games
      \/ current_game_id = current_state /\ booted # "none"

---------------------------------------------------------------------------
(* Admin connections *)

ADMIN_PASSWORD == "y2k2025"
PasswordInputs == { ADMIN_PASSWORD, "" }

\* on_admin_auth: the result goes to the sender; with the right password the
\* connection joins the room "admin" and is sent the phase and the scores
AdminAuth ==
    /\ \E sid \in connected, password \in PasswordInputs :
         LET success == password = ADMIN_PASSWORD
         IN  /\ admins' = IF success THEN admins \cup { sid } ELSE admins
             /\ outbox' = << Emit("admin_auth_result", NoError, SidRoom(sid), NoSid) >>
                            \o (IF success
                                THEN << Emit("state_change", NoError, SidRoom(sid), NoSid),
                                        Emit("score_update", NoError, SidRoom(sid), NoSid) >>
                                ELSE << >>)
    /\ UNCHANGED << registryVars, fileVars, now, nextUuid, booted, saveVars, threadVars,
                    current_game_id, games, gameState, emitted, returned, entered,
                    entries, inflight, lastActive, connected, timerVars >>

NextAdmin == Connect \/ Disconnect \/ AdminAuth \/ Activity \/ Handle

SpecAdmin == Init /\ [][NextAdmin]_vars

\* handle_event has built the context for an event of a connection
ContextNamesAdmin ==
    (inflight' # inflight /\ inflight'.stage = "found") =>
      (inflight'.context.is_admin <=> inflight'.context.session_id \in admins)

\* C31: the EventContext handed to a handler has is_admin true exactly when
\* the sending connection has authenticated as admin.
C31_ContextNamesAdmin == [][ContextNamesAdmin]_vars

---------------------------------------------------------------------------
(* The join-code index *)

\* C32: in every reachable state join_codes is the map got by scanning teams:
\* each live team's code leads to that team, and no other code has an entry,
\* also after kick_team, reset_game and a startup load.
C32_IndexIsDerived ==
    /\ DOMAIN join_codes = { teams[t].join_code : t \in DOMAIN teams }
    /\ \A t \in DOMAIN teams : join_codes[teams[t].join_code] = t

\* a startup has loaded the files after the first of two teams was kicked (or the
\* game reset before the second was made): one team, one code
C32_Witness ==
    /\ booted # "none"
    /\ DOMAIN teams = { nextUuid - 1 }
    /\ nextUuid > 2
    /\ Cardinality(DOMAIN join_codes) = 1

---------------------------------------------------------------------------
(* Team colors *)

MaxFounded == 9       \* teams created in one run

\* the connections the teams are created from
FounderSids == { "f1", "f2", "f3", "f4", "f5", "f6", "f7", "f8", "f9" }

\* create_team for the next team: a name and a code no team before it had, from
\* a connection that is on no team
FoundTeam ==
    /\ nextUuid < 2 * MaxFounded
    /\ LET k == nextUuid \div 2
           sid == CHOOSE f \in FounderSids : f \notin DOMAIN sessions
       IN  Written(create_team(Memory, << chars[k + 1] >>, << "p" >>, sid,
                               CodeNumber(k, CodeLength), now))
    /\ UNCHANGED << threadVars, routerVars, connVars, timerVars >>

\* kick_team for a live team
KickLive ==
    /\ \E team_id \in DOMAIN teams : Written(kick_team(Memory, team_id))
    /\ UNCHANGED << threadVars, routerVars, connVars, timerVars >>

NextColors == FoundTeam \/ KickLive

SpecColors == Init /\ [][NextColors]_vars

UsedColors == { teams[u].color : u \in DOMAIN teams }

\* a step, and when it adds a team the color the team got
ColorsByPalette ==
    /\ \A t \in DOMAIN teams' : teams'[t].color \in 1..PaletteSize
    /\ \A t \in DOMAIN teams' \ DOMAIN teams :
         LET color == teams'[t].color
         IN  /\ color \in UsedColors => UsedColors = 1..PaletteSize
             /\ UsedColors # 1..PaletteSize =>
                  /\ color \notin UsedColors
                  /\ \A c \in 1..(color - 1) : c \in UsedColors

\* C33: every team's color is an integer in 1..8; a new team gets the first
\* color of the palette that no live team has, and a color that a live team has
\* only when all 8 are in use by live teams.
C33_ColorsByPalette == [][ColorsByPalette]_vars

\* eight teams live with eight colors, and a ninth shares the color of one of
\* them
C33_Witness ==
    /\ Cardinality(DOMAIN teams) = PaletteSize + 1
    /\ UsedColors = 1..PaletteSize

---------------------------------------------------------------------------
(* get_sync_state next to calls that write *)

\* _get_players_list: player_id -> name, in place of the list of pairs
get_players_list(m, team_id) ==
    IF team_id \notin DOMAIN m.teams THEN EmptyDict
    ELSE [ pid \in DOMAIN m.teams[team_id].players |-> m.teams[team_id].players[pid].name ]

get_scores(m) == [ tid \in DOMAIN m.teams |-> m.teams[tid].score ]

\* the dict get_sync_state returns
SyncPayload(team_id, team_name, player_id, player_name, join_code, color, players, scores) ==
    [ team_id |-> team_id, team_name |-> team_name, player_id |-> player_id,
      player_name |-> player_name, join_code |-> join_code, color |-> color,
      players |-> players, scores |-> scores ]

\* lines 657-661: "team = self.teams.get(team_id, {})" and the player's name
TeamRead(m, team_id, player_id) ==
    LET found == team_id \in DOMAIN m.teams
        team == IF found THEN m.teams[team_id] ELSE EmptyDict
    IN  [ team_name |-> IF found THEN team.name ELSE << >>,
          join_code |-> IF found THEN team.join_code ELSE << >>,
          color |-> IF found THEN team.color ELSE 1,
          player_name |-> IF found /\ player_id \in DOMAIN team.players
                          THEN team.players[player_id].name ELSE << >> ]

\* get_sync_state with nothing else running
get_sync_state(m, team_id, player_id) ==
    LET team == TeamRead(m, team_id, player_id)
    IN  SyncPayload(team_id, team.team_name, player_id, team.player_name, team.join_code,
                    team.color, get_players_list(m, team_id), get_scores(m))

\* the thread that runs get_sync_state
Reader == "t1"
Reading == pc[Reader] \in { "players", "scores" }

\* a call that writes, made under the lock by another thread; while the reader
\* is at work, what get_sync_state would return in the new state is noted
Mutate(out) ==
    /\ Commit(out)
    /\ call' = IF Reading
               THEN [call EXCEPT ![Reader].seen =
                       @ \cup { get_sync_state(out.mem, call[Reader].team_id,
                                               call[Reader].player_id) }]
               ELSE call
    /\ UNCHANGED << lock, pc, routerVars, connVars, timerVars >>

SyncRegister ==
    \E join_code \in UniqueJoinCodes(join_codes) :
      Mutate(create_team(Memory, << "A" >>, << "p" >>, "s1", join_code, now))

SyncJoin ==
    \E join_code \in DOMAIN join_codes :
      Mutate(join_team(Memory, join_code, << "q" >>, "s2", now))

SyncAddPoints ==
    \E team_id \in DOMAIN teams :
      /\ teams[team_id].score < MaxScore
      /\ Mutate(add_points(Memory, team_id, 1))

SyncKick == \E team_id \in DOMAIN teams : Mutate(kick_team(Memory, team_id))

\* lines 657-661, for the team and player of a session
SyncBegin ==
    /\ pc[Reader] = "idle"
    /\ \E sid \in DOMAIN sessions :
         LET team_id == sessions[sid].team_id
             player_id == sessions[sid].player_id
             team == TeamRead(Memory, team_id, player_id)
         IN  call' = [call EXCEPT ![Reader] =
                        [ team_id |-> team_id, player_id |-> player_id,
                          team_name |-> team.team_name, player_name |-> team.player_name,
                          join_code |-> team.join_code, color |-> team.color,
                          players |-> EmptyDict, scores |-> EmptyDict,
                          seen |-> { get_sync_state(Memory, team_id, player_id) } ]]
    /\ pc' = [pc EXCEPT ![Reader] = "players"]
    /\ UNCHANGED << registryVars, fileVars, now, nextUuid, booted, lock, saveVars,
                    routerVars, connVars, timerVars >>

\* line 670: "'players': self._get_players_list(team_id)"
SyncPlayers ==
    /\ pc[Reader] = "players"
    /\ call' = [call EXCEPT ![Reader].players =
                  get_players_list(Memory, call[Reader].team_id)]
    /\ pc' = [pc EXCEPT ![Reader] = "scores"]
    /\ UNCHANGED << registryVars, fileVars, now, nextUuid, booted, lock, saveVars,
                    routerVars, connVars, timerVars >>

\* line 671: "'scores': self.get_scores()", and the return
SyncScores ==
    /\ pc[Reader] = "scores"
    /\ call' = [call EXCEPT ![Reader].scores = get_scores(Memory)]
    /\ pc' = [pc EXCEPT ![Reader] = "done"]
    /\ UNCHANGED << registryVars, fileVars, now, nextUuid, booted, lock, saveVars,
                    routerVars, connVars, timerVars >>

NextSync ==
    \/ SyncRegister \/ SyncJoin \/ SyncAddPoints \/ SyncKick
    \/ SyncBegin \/ SyncPlayers \/ SyncScores

SpecSync == Init /\ [][NextSync]_vars

\* what the call returned
Returned(c) ==
    SyncPayload(c.team_id, c.team_name, c.player_id, c.player_name, c.join_code, c.color,
                c.players, c.scores)

\* C34: a get_sync_state call that runs next to kick_team, join_team or
\* add_points returns what it would return in one of the states the registry
\* was in during the call.
C34_SyncReadsOneState ==
    pc[Reader] = "done" => Returned(call[Reader]) \in call[Reader].seen

---------------------------------------------------------------------------
(* BuzzerGame *)

FREEZE_SECONDS == 10           \* "freeze_seconds = 10" of handle_judge_buzzer

\* _is_team_frozen at time t, and the frozen_teams it leaves (an entry that has
\* run out is deleted)
is_team_frozen(st, team_id, t) ==
    team_id \in DOMAIN st.frozen_teams /\ t < st.frozen_teams[team_id]

Thawed(st, team_id, t) ==
    IF team_id \in DOMAIN st.frozen_teams /\ t >= st.frozen_teams[team_id]
    THEN [st EXCEPT !.frozen_teams = Without(@, team_id)]
    ELSE st

\* "team_id = context.team_id or data.get('team_id')"
PressTeam(data, context) ==
    IF context.team_id # NoId THEN context.team_id ELSE Get(data, "team_id", NoId)

\* lines 33-47: the press is let through to "Lock it"
PressPasses(data, context, st, m, t) ==
    /\ PressTeam(data, context) # NoId
    /\ st.locked_by = None
    /\ ~is_team_frozen(st, PressTeam(data, context), t)
    /\ PressTeam(data, context) \in DOMAIN m.teams

\* lines 50-55: the dict put in locked_by
LockedBy(team_id, m, context) ==
    [ team_id |-> team_id, team_name |-> m.teams[team_id].name,
      player_id |-> context.player_id ]

\* lines 57-63
BuzzerLocked == [EventResponse EXCEPT !.broadcast = { "buzzer_locked", "pause_audio" }]

\* handle_press_buzzer with nothing else running
handle_press_buzzer(data, context, st, m, t) ==
    IF context.team_id = NoId /\ ~IsDict(data) THEN Raises(st, m)
    ELSE IF ~PressPasses(data, context, st, m, t)
    THEN Handled(FALSE,
                 IF PressTeam(data, context) # NoId /\ st.locked_by = None
                 THEN Thawed(st, PressTeam(data, context), t) ELSE st,
                 Untouched(m), EventResponse)
    ELSE Handled(FALSE,
                 [Thawed(st, PressTeam(data, context), t) EXCEPT
                    !.locked_by = LockedBy(PressTeam(data, context), m, context)],
                 Untouched(m), BuzzerLocked)

\* handle_judge_buzzer
handle_judge_buzzer(data, st, m, t) ==
    IF ~IsDict(data) THEN Raises(st, m)
    ELSE LET team_id == Get(data, "team_id", NoId)
             correct == Get(data, "correct", FALSE)
             points == Get(data, "points", 0)
             paid == correct /\ points # 0
             frozen == ~correct /\ team_id # NoId
         IN  Handled(FALSE,
                     [st EXCEPT !.locked_by = None,
                                !.frozen_teams =
                                   IF frozen THEN (team_id :> (t + FREEZE_SECONDS)) @@ @
                                   ELSE @],
                     IF paid THEN add_points(m, team_id, points) ELSE Untouched(m),
                     [EventResponse EXCEPT
                        !.broadcast = { "buzzer_reset" }
                                        \cup (IF paid THEN { "score_update" } ELSE {})
                                        \cup (IF correct THEN {} ELSE { "resume_audio" }),
                        !.to_specific_team =
                           IF frozen THEN (team_id :> { "buzzer_lockout" }) ELSE EmptyDict])

\* handle_play_audio
handle_play_audio(data, st, m) ==
    IF ~IsDict(data) THEN Raises(st, m)
    ELSE Handled(FALSE, [st EXCEPT !.locked_by = None], Untouched(m),
                 [EventResponse EXCEPT !.broadcast = { "play_audio", "buzzer_reset" }])

---------------------------------------------------------------------------
(* A round of the buzzer: presses on two connection threads *)

\* the admin has started the round for the two teams
BuzzerMemory == store_state(Party, "BUZZER", EmptyDict).mem

BuzzerIds == { DefaultState, "BUZZER" }

InitBuzzer ==
    /\ InitThreads /\ InitSave /\ InitConn /\ InitTimer
    /\ teams = BuzzerMemory.teams
    /\ sessions = BuzzerMemory.sessions
    /\ join_codes = BuzzerMemory.join_codes
    /\ current_state = BuzzerMemory.current_state
    /\ state_data = BuzzerMemory.state_data
    /\ nextUuid = BuzzerMemory.uuid
    /\ primary = json_dump(Data(BuzzerMemory))
    /\ bak = json_dump(Data(Party))
    /\ tmp = Absent
    /\ now = 0
    /\ booted = "none"
    /\ games = BuzzerIds
    /\ current_game_id = "BUZZER"
    /\ gameState = [ g \in BuzzerIds |-> on_enter(g, EmptyDict) ]
    /\ emitted = [ event |-> "state_change", current_state |-> "BUZZER",
                   state_data |->
                     get_sanitized_state_data("BUZZER", on_enter("BUZZER", EmptyDict)) ]
    /\ returned = [ call |-> "BUZZER", value |-> "True" ]
    /\ entered = "BUZZER"
    /\ entries = [ g \in BuzzerIds |-> IF g = "BUZZER" THEN 1 ELSE 0 ]
    /\ outbox = << >>
    /\ inflight = NoDispatch

\* the connection threads that run press_buzzer, and the connections that send
\* it: a player of each team, and one that joined no team
Pressers == { "t1", "t2" }
PressSids == { "s1", "s4", "s9" }

Buzzer == PrivateState(gameState["BUZZER"])

\* lines 30-47 on thread th: a press that is refused returns the empty answer,
\* one that is let through has yet to reach line 50
PressBegin(th) ==
    /\ pc[th] = "idle"
    /\ \E sid \in PressSids, data \in { EmptyDict } \cup { [team_id |-> t] : t \in DOMAIN teams } :
         LET context == EventContext(Memory, sid)
             team_id == PressTeam(data, context)
         IN  IF PressPasses(data, context, Buzzer, Memory, now)
             THEN /\ pc' = [pc EXCEPT ![th] = "locking"]
                  /\ call' = [call EXCEPT ![th] =
                                [ context |-> context,
                                  locked_by |-> LockedBy(team_id, Memory, context) ]]
                  /\ gameState' = [gameState EXCEPT
                                     !["BUZZER"] = WithState(@, Thawed(Buzzer, team_id, now))]
                  /\ UNCHANGED outbox
             ELSE /\ outbox' = ProcessResponse(
                                 handle_press_buzzer(data, context, Buzzer, Memory, now).response,
                                 context)
                  /\ gameState' = [gameState EXCEPT
                                     !["BUZZER"] = WithState(@,
                                        handle_press_buzzer(data, context, Buzzer, Memory,
                                                            now).state)]
                  /\ UNCHANGED << pc, call >>
    /\ UNCHANGED << registryVars, fileVars, now, nextUuid, booted, saveVars, lock,
                    current_game_id, games, emitted, returned, entered, entries, inflight,
                    connVars, timerVars >>

\* lines 50-65 on thread th, and the fan-out of the answer
PressLock(th) ==
    /\ pc[th] = "locking"
    /\ gameState' = [gameState EXCEPT
                       !["BUZZER"] = WithState(@, [Buzzer EXCEPT
                                                    !.locked_by = call[th].locked_by])]
    /\ outbox' = ProcessResponse(BuzzerLocked, call[th].context)
    /\ pc' = [pc EXCEPT ![th] = "idle"]
    /\ call' = [call EXCEPT ![th] = NoCall]
    /\ UNCHANGED << registryVars, fileVars, now, nextUuid, booted, saveVars, lock,
                    current_game_id, games, emitted, returned, entered, entries, inflight,
                    connVars, timerVars >>

Press == \E th \in Pressers : PressBegin(th)

Lock == \E th \in Pressers : PressLock(th)

\* the admin sends judge_buzzer
Judge ==
    \E team_id \in DOMAIN teams, correct \in BOOLEAN, points \in { 0, 1 } :
      /\ correct /\ points # 0 => teams[team_id].score < MaxScore
      /\ Answered("BUZZER",
                  handle_judge_buzzer([team_id |-> team_id, correct |-> correct,
                                       points |-> points], Buzzer, Memory, now),
                  EventContext(Memory, "s9"))

\* the admin sends play_audio
PlayAudio ==
    \E data \in { EmptyDict, [audio_url |-> "u"] } :
      Answered("BUZZER", handle_play_audio(data, Buzzer, Memory),
               EventContext(Memory, "s9"))

NextBuzzer == Press \/ Lock \/ Judge \/ PlayAudio

SpecBuzzer == InitBuzzer /\ [][NextBuzzer]_vars

BuzzerLockedIn(box) == \E i \in DOMAIN box : box[i].event = "buzzer_locked"

\* a step that starts and ends with the buzzer locked
LockKept ==
    (Buzzer.locked_by # None /\ Buzzer'.locked_by # None) =>
      /\ Buzzer'.locked_by = Buzzer.locked_by
      /\ ~BuzzerLockedIn(outbox')

\* C35: while the buzzer is locked, and until judge_buzzer or play_audio
\* unlocks it, no press changes locked_by and no step sends buzzer_locked: one
\* press wins each lock period, also when two presses run on two threads.
C35_OneWinnerPerLock == [][LockKept]_vars

---------------------------------------------------------------------------
(* The persisted phase and the router's *)

\* C36: with the lobby registered and no set_state call under way, the
\* SessionManager's current_state is the router's current_game_id, also after a
\* set_state that fell back to LOBBY or whose on_enter raised.
C36_PersistedIsActive ==
    ("LOBBY" \in games /\ returned.value # "pending") => current_state = current_game_id

---------------------------------------------------------------------------
(* Sessions and the players they stand for *)

\* create_team for one of two team names from either connection
FormTeam ==
    \E tn \in { << "A" >>, << "B" >> }, sid \in Sids :
      \E join_code \in UniqueJoinCodes(join_codes) :
        Apply(create_team(Memory, tn, << "p" >>, sid, join_code, now))

\* join_team with a live code from either connection
JoinLive ==
    \E jc \in DOMAIN join_codes, sid \in Sids :
      Apply(join_team(Memory, jc, << "q" >>, sid, now))

NextSessions ==
    \/ FormTeam
    \/ JoinLive
    \/ ReassociateSession
    \/ KickTeam
    \/ ResetGame
    \/ Tick
    \/ Sweep

SpecSessions == Init /\ [][NextSessions]_vars

\* C37: every session entry names a live team and a player of that team, after
\* any sequence of create_team, join_team, reassociate_session, kick_team,
\* reset_game and _cleanup_stale_sessions.
C37_SessionsNameLivePlayers ==
    \A sid \in DOMAIN sessions :
      /\ sessions[sid].team_id \in DOMAIN teams
      /\ sessions[sid].player_id \in DOMAIN teams[sessions[sid].team_id].players

\* two teams were formed, the first was kicked with a session bound to it, and
\* the one session left is that of the second team's player
C37_Witness ==
    /\ DOMAIN teams = { 3 }
    /\ nextUuid = 4
    /\ \E sid \in Sids :
         /\ DOMAIN sessions = { sid }
         /\ sessions[sid].team_id = 3
         /\ sessions[sid].player_id = 4
    /\ now = 0

---------------------------------------------------------------------------
(* TimelineGame.handle_submit_timeline *)

\* "points_table = [100, 75, 50, 25]"
PointsTable == << 100, 75, 50, 25 >>

Min(a, b) == IF a <= b THEN a ELSE b

\* "self._state['winners'].index(team_id) + 1"
Position(winners, team_id) == CHOOSE i \in DOMAIN winners : winners[i] = team_id

\* TimelineGame.handle_submit_timeline at time t
handle_submit_timeline(data, context, st, m, t) ==
    IF ~IsDict(data) THEN Raises(st, m)
    ELSE LET team_id == IF context.team_id # NoId THEN context.team_id
                        ELSE Get(data, "team_id", NoId)
             submitted_order == Get(data, "order", << >>)
             refused(code) == Handled(FALSE, st, Untouched(m),
                                      [EventResponse EXCEPT !.error = code])
             result == (team_id :> { "timeline_result" })
             stored == [st EXCEPT !.submissions =
                          (team_id :> [ order |-> submitted_order,
                                        player_id |-> context.player_id,
                                        timestamp |-> t ]) @@ @]
             finish_position == Len(st.winners) + 1
             points == PointsTable[Min(finish_position, Len(PointsTable))]
         IN  IF team_id = NoId THEN refused("NO_TEAM")
             ELSE IF team_id \notin DOMAIN m.teams THEN refused("INVALID_TEAM")
             ELSE IF \E i \in DOMAIN st.winners : st.winners[i] = team_id
             THEN Handled(FALSE, st, Untouched(m),
                          [EventResponse EXCEPT !.to_specific_team = result])
             ELSE IF submitted_order = st.correct_order
             THEN Handled(FALSE,
                          [stored EXCEPT !.winners = Append(@, team_id),
                                         !.statuses = (team_id :> "winner") @@ @],
                          add_points(m, team_id, points),
                          [EventResponse EXCEPT
                             !.to_specific_team = result,
                             !.broadcast = { "score_update", "timeline_status" },
                             !.to_admin = { "timeline_submission" }])
             ELSE Handled(FALSE,
                          [stored EXCEPT !.statuses = (team_id :> "failed") @@ @],
                          Untouched(m),
                          [EventResponse EXCEPT
                             !.to_specific_team = result,
                             !.broadcast = { "timeline_status" },
                             !.to_admin = { "timeline_submission" }])

---------------------------------------------------------------------------
(* A round of Timeline: submissions from players and from a guest *)

TimelinePuzzle ==
    [ puzzle_id |-> << 1 >>, items |-> ItemsDated, correct_order |-> << 2, 1 >> ]

\* the admin has started the round for the two teams
TimelineMemory == store_state(Party, "TIMELINE", TimelinePuzzle).mem

TimelineIds == { DefaultState, "TIMELINE" }

InitTimeline ==
    /\ InitThreads /\ InitSave /\ InitConn /\ InitTimer
    /\ teams = TimelineMemory.teams
    /\ sessions = TimelineMemory.sessions
    /\ join_codes = TimelineMemory.join_codes
    /\ current_state = TimelineMemory.current_state
    /\ state_data = TimelineMemory.state_data
    /\ nextUuid = TimelineMemory.uuid
    /\ primary = json_dump(Data(TimelineMemory))
    /\ bak = json_dump(Data(Party))
    /\ tmp = Absent
    /\ now = 0
    /\ booted = "none"
    /\ games = TimelineIds
    /\ current_game_id = "TIMELINE"
    /\ gameState = [ g \in TimelineIds |->
                       IF g = "TIMELINE"
                       THEN OnEnter(TimelineState(TimelinePuzzle, DOMAIN TimelineMemory.teams))
                       ELSE NotEntered ]
    /\ emitted = [ event |-> "state_change", current_state |-> "TIMELINE",
                   state_data |->
                     TimelineSanitized(TimelineState(TimelinePuzzle,
                                                     DOMAIN TimelineMemory.teams)) ]
    /\ returned = [ call |-> "TIMELINE", value |-> "True" ]
    /\ entered = "TIMELINE"
    /\ entries = [ g \in TimelineIds |-> IF g = "TIMELINE" THEN 1 ELSE 0 ]
    /\ outbox = << >>
    /\ inflight = NoDispatch

\* the connections that send: two players of the first team, one of the second,
\* and a connection that joined no team
SubmitSids == { "s1", "s2", "s4", "s9" }

\* the team ids a payload carries: the teams', and one of no team
PayloadTeams == DOMAIN teams \cup { MaxUuid + 5 }

\* event_router.py 19-83 for submit_timeline from connection sid: the context is
\* built, the handler runs, its answer is fanned out; the call is noted in
\* inflight
Submit ==
    \E sid \in SubmitSids, order \in { << 1, 2 >>, << 2, 1 >> } :
      \E data \in { [order |-> order] } \cup
                  { [team_id |-> team_id, order |-> order] : team_id \in PayloadTeams } :
        LET context == EventContext(Memory, sid)
            r == handle_submit_timeline(data, context, PrivateState(gameState["TIMELINE"]),
                                        Memory, now)
        IN  /\ Commit(r.out)
            /\ gameState' = [gameState EXCEPT !["TIMELINE"] = WithState(@, r.state)]
            /\ outbox' = ProcessResponse(r.response, context)
            /\ inflight' = Dispatch("handled", "TIMELINE", "submit_timeline", data, context,
                                    EventResponse, FALSE)
            /\ UNCHANGED << current_game_id, games, emitted, returned, entered, entries,
                            threadVars, connVars, timerVars >>

NextTimeline == Submit

SpecTimeline == InitTimeline /\ [][NextTimeline]_vars

\* a step that handles an event of a connection bound to no team
GuestChangesNothing ==
    (inflight'.stage = "handled" /\ inflight'.context.team_id = NoId) =>
      /\ teams' = teams
      /\ gameState' = gameState

\* C38: an event from a connection with no session changes no team's score and
\* nothing of the cartridge's state, whatever team_id its payload carries.
C38_GuestChangesNothing == [][GuestChangesNothing]_vars

---------------------------------------------------------------------------
(* One round of Survival Mode, revealed more than once *)

MaxPaid == 2          \* reveals that pay the same team in one run

\* a player sends survival_vote for one of the two options
RoundVote ==
    \E sid \in DOMAIN sessions, vote \in { "A", "B" } :
      Answered("SURVIVAL",
               handle_vote([vote |-> vote], EventContext(Memory, sid),
                           PrivateState(gameState["SURVIVAL"]), Memory),
               EventContext(Memory, sid))

\* the admin sends survival_reveal, any number of times; the round is never
\* reset and the cartridge is not entered again
RoundReveal ==
    /\ \A t \in DOMAIN teams : teams[t].score < MaxPaid * POINTS_FOR_MAJORITY
    /\ Answered("SURVIVAL",
                handle_reveal(PrivateState(gameState["SURVIVAL"]), Memory),
                EventContext(Memory, "s9"))

NextRound == RoundVote \/ RoundReveal

SpecRound == InitSurvival /\ [][NextRound]_vars

\* C39: in the one round of these runs, which starts with every score at 0, no
\* team is given the majority points more than once, however many times
\* survival_reveal is sent.
C39_PaidOncePerRound ==
    \A t \in DOMAIN teams : teams[t].score <= POINTS_FOR_MAJORITY

====
